---- MODULE Spec2Model ----
(***************************************************************************)
(* Verification model of the curl.club curling engine: the ice grid, the   *)
(* physics tick, the collision resolver, end scoring, the game's phase     *)
(* machine (src/src/App.jsx) and the headless simulator                    *)
(* (src/unnamed/part_000, physics-sim.js).                                 *)
(*                                                                         *)
(* The program computes in IEEE doubles; the model computes in fixed       *)
(* point, every division truncating toward zero (Div), so that negating an *)
(* input negates the result exactly as it does in the code:                *)
(*   position x, y        1/1000 world unit                                *)
(*   velocity             1/10000                                          *)
(*   dt                   milliseconds                                     *)
(*   friction             1/1000000                                        *)
(*   pebbleHeight         1/100000000                                      *)
(*   moisture             1/1000000                                        *)
(*   temperature          1/1000                                           *)
(*   slopeX, slopeY       1/10000000                                       *)
(*   angle                the heading as the pair (cos, sin), 1/10000; the *)
(*                        code only ever reads cos(angle) and sin(angle)   *)
(*                        and writes angle = atan2(vy, vx)                 *)
(* Tuning record: baseFriction 1/1000000, pebbleFrictionBonus 1/1000,      *)
(* curlCoeff 1, gradientCoeff 1/10, slopeGravity 1, frictionDecel 1/10,    *)
(* speedScale 1, wearRate 1/10000, sweepBoost 1/100.                       *)
(***************************************************************************)
EXTENDS Integers, Sequences, FiniteSets, TLC

\* ------------------------------------------------------------ arithmetic
Abs(a) == IF a < 0 THEN -a ELSE a
Max(a, b) == IF a >= b THEN a ELSE b
Min(a, b) == IF a <= b THEN a ELSE b
\* a / b for b > 0, truncated toward zero
Div(a, b) == IF a >= 0 THEN a \div b ELSE -((-a) \div b)
\* Math.floor(a / b) for b > 0
Floor(a, b) == a \div b

RECURSIVE SqrtBS(_, _, _)
SqrtBS(n, lo, hi) ==
  IF lo >= hi THEN lo
  ELSE LET mid == (lo + hi + 1) \div 2
       IN IF mid * mid <= n THEN SqrtBS(n, mid, hi) ELSE SqrtBS(n, lo, mid - 1)
\* Math.sqrt on a nonnegative integer: the integer part of the root
Sqrt(n) == IF n <= 0 THEN 0 ELSE SqrtBS(n, 0, Min(n, 46340))

\* ------------------------------------------------------------ world constants
ROCK_RADIUS == 5000
ROCKS_PER_TEAM == 8
\* 0.92, in hundredths
RESTITUTION == 92
ROCKS_PER_END == ROCKS_PER_TEAM * 2
WORLD == [sheetHalfWidth |-> 82000, sheetStart |-> 50000, sheetEnd |-> -680000,
          hogLine |-> -380000, tLine |-> -540000, backLine |-> -612000,
          hackPos |-> -100000, houseCenter |-> [x |-> -540000, y |-> 0],
          houseRadii |-> <<6000, 24000, 48000, 72000>>]
GRID_COLS == 48
GRID_ROWS == 16
GRID_X_MIN == WORLD.sheetEnd
GRID_X_MAX == WORLD.sheetStart
GRID_Y_MIN == -WORLD.sheetHalfWidth
GRID_Y_MAX == WORLD.sheetHalfWidth
\* CELL_W = GridW / GRID_COLS and CELL_H = GridH / GRID_ROWS are not integers:
\* every use multiplies through by the column or row count instead
GridW == GRID_X_MAX - GRID_X_MIN
GridH == GRID_Y_MAX - GRID_Y_MIN
CURL_SAMPLE_OFFSET == (ROCK_RADIUS * 8) \div 10
DEFAULTS == [baseFriction |-> 80000, pebbleFrictionBonus |-> 70, curlCoeff |-> 35,
             gradientCoeff |-> 80, slopeGravity |-> 18, frictionDecel |-> 90,
             speedScale |-> 60, wearRate |-> 15, sweepBoost |-> 25]

Cols == 0 .. (GRID_COLS - 1)
Rows == 0 .. (GRID_ROWS - 1)

\* ------------------------------------------------------------ ice grid
createCell == [pebbleHeight |-> 100000000, temperature |-> 0, moisture |-> 0,
               slopeX |-> 0, slopeY |-> 0]

\* max(0.02, bf + pebbleHeight*pb - moisture*0.03 + temperature*0.002)
cellFriction(cell, bf, pb) ==
  Max(20000, bf + Div(Div(cell.pebbleHeight, 100) * pb, 1000)
                - Div(cell.moisture * 3, 100) + cell.temperature * 2)

\* new IceGrid(): cells[c][r] = createCell()
NewIceGrid == [c \in Cols |-> [r \in Rows |-> createCell]]

\* Math.max(0, Math.min(n - 1, Math.floor((w - lo) / cell))): a point beyond
\* either edge of the grid gets the index of the edge cell, so w is clamped to
\* the grid first (this keeps the product in range and changes no index)
GridIndex(w, lo, extent, n) ==
  Max(0, Min(n - 1, Floor((Max(lo, Min(lo + extent, w)) - lo) * n, extent)))

\* toGrid(wx, wy): the cell containing the point, clamped to the grid
toGrid(wx, wy) ==
  <<GridIndex(wx, GRID_X_MIN, GridW, GRID_COLS), GridIndex(wy, GRID_Y_MIN, GridH, GRID_ROWS)>>

\* _bilinear, one axis, with the weight left as fx - c0: beyond the centres of
\* the edge cells the interpolation extrapolates
BilinearAxisExtrapolating(w, lo, extent, n) ==
  LET wc == Max(lo, Min(lo + extent, w))
      num == (wc - lo) * 2 * n - extent
      c0 == Max(0, Min(n - 2, Floor(num, 2 * extent)))
      rest == num - c0 * 2 * extent
  IN [i0 |-> c0, t |-> (rest * 500) \div extent]

\* _bilinear, one axis: fx = (w - min) / cell - 0.5, the base index
\* c0 = clamp(floor(fx), 0, n - 2) and the weight tx = clamp(fx - c0, 0, 1) in
\* 1/1000. A point beyond either edge of the grid gets the base index and the
\* weight of the edge, so w is clamped to the grid first (this keeps the
\* products in range, and changes neither c0 nor tx).
BilinearAxis(w, lo, extent, n) ==
  LET wc == Max(lo, Min(lo + extent, w))
      num == (wc - lo) * 2 * n - extent
      c0 == Max(0, Min(n - 2, Floor(num, 2 * extent)))
      rest == num - c0 * 2 * extent
      t == IF rest <= 0 THEN 0
           ELSE IF rest >= 2 * extent THEN 1000
           ELSE (rest * 500) \div extent
  IN [i0 |-> c0, t |-> t]

\* v00*(1-tx)*(1-ty) + v10*tx*(1-ty) + v01*(1-tx)*ty + v11*tx*ty, evaluated as
\* two interpolations along x followed by one along y
Lerp(a, b, t) == a + Div((b - a) * t, 1000)
Bilinear4(v00, v10, v01, v11, tx, ty) ==
  Lerp(Lerp(v00, v10, tx), Lerp(v01, v11, tx), ty)

sampleFriction(grid, wx, wy, bf, pb) ==
  LET ax == BilinearAxis(wx, GRID_X_MIN, GridW, GRID_COLS)
      ay == BilinearAxis(wy, GRID_Y_MIN, GridH, GRID_ROWS)
      c0 == ax.i0
      r0 == ay.i0
  IN Bilinear4(cellFriction(grid[c0][r0], bf, pb), cellFriction(grid[c0 + 1][r0], bf, pb),
               cellFriction(grid[c0][r0 + 1], bf, pb), cellFriction(grid[c0 + 1][r0 + 1], bf, pb),
               ax.t, ay.t)

sampleSlope(grid, wx, wy) ==
  LET ax == BilinearAxis(wx, GRID_X_MIN, GridW, GRID_COLS)
      ay == BilinearAxis(wy, GRID_Y_MIN, GridH, GRID_ROWS)
      c0 == ax.i0
      r0 == ay.i0
  IN [sx |-> Bilinear4(grid[c0][r0].slopeX, grid[c0 + 1][r0].slopeX,
                       grid[c0][r0 + 1].slopeX, grid[c0 + 1][r0 + 1].slopeX, ax.t, ay.t),
      sy |-> Bilinear4(grid[c0][r0].slopeY, grid[c0 + 1][r0].slopeY,
                       grid[c0][r0 + 1].slopeY, grid[c0 + 1][r0 + 1].slopeY, ax.t, ay.t)]

\* one cell of applyWear: weight w in tenths (10 for the centre, 3 for a
\* neighbour), wearRate in 1/10000, dt in ms
\* applyWear's cell step without the floor on pebbleHeight and the cap on
\* moisture
WearCellUnclamped(cell, w, dt, isSweeping, wearRate) ==
  IF isSweeping
  THEN [cell EXCEPT !.pebbleHeight = cell.pebbleHeight - wearRate * w * dt
                                       - Div(wearRate * 25 * w * dt, 10),
                    !.moisture = cell.moisture + 5 * w * dt]
  ELSE [cell EXCEPT !.pebbleHeight = cell.pebbleHeight - wearRate * w * dt]

WearCell(cell, w, dt, isSweeping, wearRate) ==
  LET p1 == Max(0, cell.pebbleHeight - wearRate * w * dt)
  IN IF isSweeping
     THEN [cell EXCEPT !.pebbleHeight = Max(0, p1 - Div(wearRate * 25 * w * dt, 10)),
                       !.moisture = Min(1000000, cell.moisture + 5 * w * dt)]
     ELSE [cell EXCEPT !.pebbleHeight = p1]

\* a wear that reaches two cells from the centre instead of one
applyWearWide(grid, wx, wy, dt, isSweeping, wearRate) ==
  LET g == toGrid(wx, wy)
      c == g[1]
      r == g[2]
  IN [cc \in Cols |->
        IF cc < c - 2 \/ cc > c + 2 THEN grid[cc]
        ELSE [rr \in Rows |->
                IF rr < r - 2 \/ rr > r + 2 THEN grid[cc][rr]
                ELSE WearCell(grid[cc][rr], IF cc = c /\ rr = r THEN 10 ELSE 3,
                              dt, isSweeping, wearRate)]]

applyWear(grid, wx, wy, dt, isSweeping, wearRate) ==
  LET g == toGrid(wx, wy)
      c == g[1]
      r == g[2]
  IN [cc \in Cols |->
        IF cc < c - 1 \/ cc > c + 1 THEN grid[cc]
        ELSE [rr \in Rows |->
                IF rr < r - 1 \/ rr > r + 1 THEN grid[cc][rr]
                ELSE WearCell(grid[cc][rr], IF cc = c /\ rr = r THEN 10 ELSE 3,
                              dt, isSweeping, wearRate)]]

\* one cell of evaporateMoisture: 0.008 per second, floored at 0
EvaporateCell(cell, dt) ==
  IF cell.moisture > 0
  THEN [cell EXCEPT !.moisture = Max(0, cell.moisture - 8 * dt)]
  ELSE cell

\* a column with no moisture is left as it is: EvaporateCell changes only
\* cells whose moisture is positive
evaporateMoisture(grid, dt) ==
  [c \in Cols |->
     IF \A r \in Rows : grid[c][r].moisture = 0 THEN grid[c]
     ELSE [r \in Rows |-> EvaporateCell(grid[c][r], dt)]]

\* ------------------------------------------------------------ ice profiles
\* cell centre in world coordinates: xW = GRID_X_MIN + (c + 0.5) * CELL_W in
\* 1/96000 world unit (exact), yW = GRID_Y_MIN + (r + 0.5) * CELL_H in 1/1000
XW96(c) == (GRID_X_MIN \div 1000) * 96 + (2 * c + 1) * (GridW \div 1000)
YW(r) == GRID_Y_MIN + (2 * r + 1) * (GridH \div (2 * GRID_ROWS))
\* yN = (r - GRID_ROWS/2) / (GRID_ROWS/2), in eighths
YN8(r) == r - GRID_ROWS \div 2

ProfileClub(cell, c, r) ==
  [cell EXCEPT !.slopeY = -YN8(r) * 1500,
               !.pebbleHeight = IF Abs(YN8(r)) * 10 < 24
                                THEN cell.pebbleHeight - (12000000 - 5000000 * Abs(YN8(r)))
                                ELSE cell.pebbleHeight]

ProfileArena(cell, c, r) ==
  LET trough == Abs(YW(r) - 25000) < 8000
      corner == XW96(c) < -500 * 96 /\ YW(r) > 40000
  IN [cell EXCEPT !.temperature = IF trough THEN -3500 ELSE -1500,
                  !.pebbleHeight = IF trough THEN cell.pebbleHeight - 12000000 ELSE cell.pebbleHeight,
                  !.slopeY = IF corner THEN -30000 ELSE IF trough THEN 12000 ELSE cell.slopeY,
                  !.slopeX = IF corner THEN -10000 ELSE cell.slopeX]

ProfileSwingy(cell, c, r) ==
  [cell EXCEPT !.slopeY = -YN8(r) * 3750, !.pebbleHeight = 120000000]

\* discovery: the values drawn from Math.random, as the record R
\* dish, tS, cs in 1/10000000; tY, tW, wOff in 1/1000; wAmt in 1/100000000
ProfileDiscovery(cell, c, r, R) ==
  LET yW == YW(r)
      inT == R.hasT /\ Abs(yW - R.tY) < R.tW
      d == IF inT THEN 1000 - Div(Abs(yW - R.tY) * 1000, R.tW) ELSE 0
      inC == R.hasCrn
             /\ (IF R.cqx > 0 THEN XW96(c) < -480 * 96 ELSE XW96(c) > -200 * 96)
             /\ (IF R.cqy > 0 THEN yW > 30000 ELSE yW < -30000)
      inW == Abs(yW - R.wOff) < 15000
      p1 == cell.pebbleHeight - 8000 * d
      p2 == IF inW THEN p1 - Div(R.wAmt, 1000) * (1000 - Div(Abs(yW - R.wOff), 15)) ELSE p1
  IN [cell EXCEPT !.slopeY = cell.slopeY + Div(-YN8(r) * R.dish, 8) + Div(R.tS * d, 1000)
                             + (IF inC THEN -R.cqy * R.cs ELSE 0),
                  !.slopeX = cell.slopeX + (IF inC THEN Div(-R.cqx * R.cs * 3, 10) ELSE 0),
                  !.temperature = cell.temperature - Div(1500 * d, 1000),
                  !.pebbleHeight = Max(0, Min(130000000, p2))]

\* the draws of Math.random the discovery profile is modelled with
DiscoveryDraws ==
  { [dish |-> 21000, tY |-> 20000, tW |-> 17000, tS |-> -15000, hasT |-> TRUE, hasCrn |-> TRUE,
     cqx |-> 1, cqy |-> 1, cs |-> 50000, wOff |-> 0, wAmt |-> 25000000],
    [dish |-> -9000, tY |-> -65000, tW |-> 5000, tS |-> 15000, hasT |-> FALSE, hasCrn |-> TRUE,
     cqx |-> -1, cqy |-> -1, cs |-> 10000, wOff |-> -15000, wAmt |-> 5000000] }

GameProfiles == {"championship", "club", "arena", "swingy", "discovery"}
SimProfiles == {"championship", "club", "arena", "swingy"}

\* ICE_PROFILES[key].init(grid) of the game; R is read by discovery only
ProfileInit(grid, key, R) ==
  [c \in Cols |-> [r \in Rows |->
     CASE key = "club" -> ProfileClub(grid[c][r], c, r)
       [] key = "arena" -> ProfileArena(grid[c][r], c, r)
       [] key = "swingy" -> ProfileSwingy(grid[c][r], c, r)
       [] key = "discovery" -> ProfileDiscovery(grid[c][r], c, r, R)
       [] OTHER -> grid[c][r]]]

\* initIce(profileKey): a new grid, initialised from the profile
initIce(profileKey, R) == ProfileInit(NewIceGrid, profileKey, R)

\* ------------------------------------------------------------ rocks
\* createRock(team, id); angle 0 is the heading (cos, sin) = (1, 0)
createRock(team, id) ==
  [id |-> id, team |-> team, x |-> 0, y |-> 0, angle |-> [cos |-> 10000, sin |-> 0],
   velocity |-> 0, spin |-> 1, paperTurns |-> 100, inPlay |-> FALSE, active |-> FALSE,
   stopped |-> FALSE, hasContacted |-> FALSE]

\* initEnd(): sixteen parked rocks, rocks[id + 1] is the rock with that id
initEnd ==
  [k \in 1 .. ROCKS_PER_END |->
     LET t == (k - 1) \div ROCKS_PER_TEAM
         i == (k - 1) % ROCKS_PER_TEAM
     IN [createRock(t, t * ROCKS_PER_TEAM + i) EXCEPT
           !.x = 200000 + i * 20000, !.y = IF t = 0 THEN -60000 ELSE 60000]]

\* a removal that parks the rock without stopping it
removeRockMoving(rock) ==
  [rock EXCEPT !.inPlay = FALSE, !.active = FALSE, !.x = 800000]

removeRock(rock) ==
  [rock EXCEPT !.inPlay = FALSE, !.active = FALSE, !.velocity = 0, !.x = 800000]

\* sqrt(x*x + y*y) of two velocity components; the squares are taken at
\* 1/10000 when they fit and at 1/1000 otherwise
Hypot(x, y) ==
  IF Abs(x) <= 32000 /\ Abs(y) <= 32000 THEN Sqrt(x * x + y * y)
  ELSE 10 * Sqrt(Div(x, 10) * Div(x, 10) + Div(y, 10) * Div(y, 10))

\* the heading atan2(vy, vx) of a vector of length len > 0, as (cos, sin)
Heading(vx, vy, len) == [cos |-> Div(vx * 10000, len), sin |-> Div(vy * 10000, len)]

\* the velocity vector (cos(angle) * velocity, sin(angle) * velocity)
VelX(rock) == Div(rock.angle.cos * rock.velocity, 10000)
VelY(rock) == Div(rock.angle.sin * rock.velocity, 10000)

\* ------------------------------------------------------------ collisions
\* the body of resolveCollisions' inner loop for the pair a = rocks[i],
\* b = rocks[j], behind its tests "i === j" and "!b.inPlay"
\* two rocks' centres are at least two radii apart
Apart(r1, r2) ==
  \/ Abs(r1.x - r2.x) >= 2 * ROCK_RADIUS \/ Abs(r1.y - r2.y) >= 2 * ROCK_RADIUS
  \/ (r1.x - r2.x) * (r1.x - r2.x) + (r1.y - r2.y) * (r1.y - r2.y) >= 4 * ROCK_RADIUS * ROCK_RADIUS

CollidePair(rocks, i, j) ==
  LET a == rocks[i]
      b == rocks[j]
      dx == a.x - b.x
      dy == a.y - b.y
      near == Abs(dx) < 2 * ROCK_RADIUS /\ Abs(dy) < 2 * ROCK_RADIUS
      d2 == IF near THEN dx * dx + dy * dy ELSE 4 * ROCK_RADIUS * ROCK_RADIUS
      \* dist in quarters of a thousandth
      dist == Sqrt(16 * d2)
  IN IF i = j \/ ~b.inPlay \/ ~(d2 < 4 * ROCK_RADIUS * ROCK_RADIUS /\ d2 > 0) THEN rocks
     ELSE
       LET nx == Div(-dx * 40000, dist)
           ny == Div(-dy * 40000, dist)
           avx == VelX(a)
           avy == VelY(a)
           bvx == VelX(b)
           bvy == VelY(b)
           rv == Div(Div(avx - bvx, 10) * nx + Div(avy - bvy, 10) * ny, 1000)
           imp == Div(rv * RESTITUTION, 100)
           nax == avx - Div(Div(imp, 10) * nx, 1000)
           nay == avy - Div(Div(imp, 10) * ny, 1000)
           nbx == bvx + Div(Div(imp, 10) * nx, 1000)
           nby == bvy + Div(Div(imp, 10) * ny, 1000)
           va == Hypot(nax, nay)
           vb == Hypot(nbx, nby)
           ol == 4 * 2 * ROCK_RADIUS - dist
           sx == Div(dx * ol, 2 * dist)
           sy == Div(dy * ol, 2 * dist)
           a1 == IF rv > 0
                 THEN [a EXCEPT !.velocity = va,
                                !.angle = IF va > 100 THEN Heading(nax, nay, va) ELSE a.angle]
                 ELSE a
           b1 == IF rv > 0
                 THEN [b EXCEPT !.velocity = vb,
                                !.angle = IF vb > 100 THEN Heading(nbx, nby, vb) ELSE b.angle]
                 ELSE b
       IN [rocks EXCEPT
             ![i] = [a1 EXCEPT !.x = a.x + sx, !.y = a.y + sy, !.hasContacted = TRUE],
             ![j] = [b1 EXCEPT !.x = b.x - sx, !.y = b.y - sy, !.inPlay = TRUE,
                               !.active = TRUE, !.stopped = FALSE, !.hasContacted = TRUE]]

RECURSIVE CollideInner(_, _, _)
CollideInner(rocks, i, j) ==
  IF j > Len(rocks) THEN rocks ELSE CollideInner(CollidePair(rocks, i, j), i, j + 1)

\* the test at the head of the outer loop is made once per i, before the
\* inner loop runs
RECURSIVE CollideOuter(_, _)
CollideOuter(rocks, i) ==
  IF i > Len(rocks) THEN rocks
  ELSE IF ~rocks[i].inPlay \/ rocks[i].velocity <= 500 THEN CollideOuter(rocks, i + 1)
  ELSE CollideOuter(CollideInner(rocks, i, 1), i + 1)

resolveCollisions(rocks) == CollideOuter(rocks, 1)

\* ------------------------------------------------------------ physics tick
\* a sweep that slows the rock instead of carrying it
DecelerateSweepDrag(v, friction, T, dt, isSweeping) ==
  LET v1 == Max(0, v - Div(Div(friction * T.frictionDecel, 10) * dt, 100000))
  IN IF isSweeping /\ v1 > 3000 THEN Max(0, v1 - Div(dt * T.sweepBoost * 10, 10)) ELSE v1

\* velocity after "Deceleration" and the sweep boost
Decelerate(v, friction, T, dt, isSweeping) ==
  LET v1 == Max(0, v - Div(Div(friction * T.frictionDecel, 10) * dt, 100000))
  IN IF isSweeping /\ v1 > 3000 THEN v1 + Div(dt * T.sweepBoost, 10) ELSE v1

\* the game's velocity factor v / (v*v + 0.5), in 1/10000
VFactor(v) ==
  LET v3 == Div(v, 10)
  IN Div(v3 * 10000, Max(1, Div(v3 * v3 + 500000, 1000)))

\* a curl twice as strong for the handle -1 as for the handle +1
CurlForceHeavyOutTurn(rock, friction, T, vFactor) ==
  (IF rock.spin < 0 THEN 2 * rock.spin ELSE rock.spin)
  * Div(Div(Div(friction * rock.paperTurns, 100) * T.curlCoeff, 1000) * vFactor, 1000)

\* a curl that ignores the tuned coefficient and takes the default one
CurlForceDefaultCoeff(rock, friction, T, vFactor) ==
  rock.spin * Div(Div(Div(friction * rock.paperTurns, 100) * DEFAULTS.curlCoeff, 1000) * vFactor, 1000)

\* spin * paperTurns * friction * curlCoeff * vFactor, in 1/10000
CurlForce(rock, friction, T, vFactor) ==
  rock.spin * Div(Div(Div(friction * rock.paperTurns, 100) * T.curlCoeff, 1000) * vFactor, 1000)

\* the game's spinCurl: -spin * paperTurns * friction * curlCoeff * vFactor
SpinCurl(rock, friction, T, vFactor) == -CurlForce(rock, friction, T, vFactor)

\* gradDrift = (fL - fR) * gradientCoeff * vFactor, the friction sampled
\* CURL_SAMPLE_OFFSET to either side of the heading
GradDrift(rock, grid, T, vFactor) ==
  LET perpX == Div(-rock.angle.sin * CURL_SAMPLE_OFFSET, 10000)
      perpY == Div(rock.angle.cos * CURL_SAMPLE_OFFSET, 10000)
      fL == sampleFriction(grid, rock.x + perpX, rock.y + perpY, T.baseFriction, T.pebbleFrictionBonus)
      fR == sampleFriction(grid, rock.x - perpX, rock.y - perpY, T.baseFriction, T.pebbleFrictionBonus)
  IN Div(Div((fL - fR) * T.gradientCoeff, 1000) * vFactor, 10000)

\* slope * slopeGravity * min(1, v * 2), in 1/10000
SlopeForce(s, T, v) == Div(Div(s * T.slopeGravity, 1000) * Min(10000, 2 * v), 10000)

\* "Apply lateral forces", "Longitudinal slope" and "Move": the rock with its
\* new y, velocity and position
MoveRock(rock, v, lateral, slopeX, T, dt) ==
  LET y1 == rock.y + Div(lateral * dt, 10000)
      v2 == Max(0, v + Div(slopeX * dt, 2000))
  IN [rock EXCEPT !.velocity = v2,
                  !.x = rock.x + Div(Div(rock.angle.cos * v2, 10000) * dt * T.speedScale, 10000),
                  !.y = y1 + Div(Div(rock.angle.sin * v2, 10000) * dt * T.speedScale, 10000)]

\* "Boundaries": the back line, the sideboards, the hog line
OverBackLine(rock) == rock.x - ROCK_RADIUS < WORLD.backLine
OverSideboard(rock) == Abs(rock.y) + ROCK_RADIUS > WORLD.sheetHalfWidth
\* the hog line rule without its exemption for a rock that has been in contact
HogLineViolationAnyRock(rock) ==
  rock.velocity <= 200 /\ rock.x > WORLD.hogLine - ROCK_RADIUS

HogLineViolation(rock) ==
  rock.velocity <= 200 /\ rock.x > WORLD.hogLine - ROCK_RADIUS /\ ~rock.hasContacted

Boundaries(rock) ==
  IF OverBackLine(rock) \/ OverSideboard(rock) \/ HogLineViolation(rock)
  THEN removeRock(rock) ELSE rock

\* spinCurl + gradDrift + slopeY
LateralForce(rock, grid, T, friction, slopeY, v, vFactor) ==
  SpinCurl(rock, friction, T, vFactor) + GradDrift(rock, grid, T, vFactor)
  + SlopeForce(slopeY, T, v)

\* the forces on a rock of velocity v after "Deceleration", and its movement
Integrate(rock, grid, T, dt, friction, slope, v) ==
  MoveRock([rock EXCEPT !.stopped = FALSE], v,
           LateralForce(rock, grid, T, friction, slope.sy, v, VFactor(v)),
           SlopeForce(slope.sx, T, v), T, dt)

\* "Wear": the grid worn under the rock where it has moved to
WearUnder(moved, grid, T, dt, isSweeping) ==
  [rock |-> moved, grid |-> applyWear(grid, moved.x, moved.y, dt, isSweeping, T.wearRate)]

\* the friction and slope sampled under the rock, then its deceleration
Sampled(rock, grid, T, dt, isSweeping, friction, slope) ==
  WearUnder(Integrate(rock, grid, T, dt, friction, slope,
                      Decelerate(rock.velocity, friction, T, dt, isSweeping)),
            grid, T, dt, isSweeping)

\* the body of physicsTick's loop for one moving rock: the rock after its
\* movement, before the boundary rules, and the worn grid
TickRock(rock, grid, T, dt, isSweeping) ==
  Sampled(rock, grid, T, dt, isSweeping,
          sampleFriction(grid, rock.x, rock.y, T.baseFriction, T.pebbleFrictionBonus),
          sampleSlope(grid, rock.x, rock.y))

\* physicsTick's loop over the roster from rock i on; moved collects each
\* rock as it was when the boundary rules were applied to it (a rock the loop
\* skips, as it was). TickMoving is the rest of the loop once rock i has
\* moved to r.rock over the grid r.grid.
RECURSIVE TickLoop(_, _, _, _, _, _, _, _)
RECURSIVE TickMoving(_, _, _, _, _, _, _)
\* a loop that passes over rocks out of play only, and moves every rock in
\* play whatever its velocity
TickLoopInPlay(rocks, moved, grid, i, anyMoving, T, dt, sweepId) ==
  IF i > Len(rocks) THEN [rocks |-> rocks, moved |-> moved, grid |-> grid, anyMoving |-> anyMoving]
  ELSE IF ~rocks[i].inPlay
  THEN TickLoop(rocks, moved, grid, i + 1, anyMoving, T, dt, sweepId)
  ELSE TickMoving(rocks, moved, i, T, dt, sweepId,
                  TickRock(rocks[i], grid, T, dt, sweepId = rocks[i].id))

\* a loop that counts as moving only rocks that have touched no other rock
TickMovingUncontacted(rocks, moved, i, T, dt, sweepId, r) ==
  TickLoop([rocks EXCEPT ![i] = Boundaries(r.rock)], [moved EXCEPT ![i] = r.rock],
           r.grid, i + 1, ~r.rock.hasContacted, T, dt, sweepId)

TickMoving(rocks, moved, i, T, dt, sweepId, r) ==
  TickLoop([rocks EXCEPT ![i] = Boundaries(r.rock)], [moved EXCEPT ![i] = r.rock],
           r.grid, i + 1, TRUE, T, dt, sweepId)

TickLoop(rocks, moved, grid, i, anyMoving, T, dt, sweepId) ==
  IF i > Len(rocks) THEN [rocks |-> rocks, moved |-> moved, grid |-> grid, anyMoving |-> anyMoving]
  ELSE IF ~rocks[i].inPlay \/ rocks[i].velocity <= 200
  THEN TickLoop([rocks EXCEPT ![i].stopped = IF rocks[i].inPlay THEN TRUE ELSE @], moved,
                grid, i + 1, anyMoving, T, dt, sweepId)
  ELSE TickMoving(rocks, moved, i, T, dt, sweepId,
                  TickRock(rocks[i], grid, T, dt, sweepId = rocks[i].id))

\* the end of physicsTick: resolveCollisions(rocks); return anyMoving
EndTick(t) ==
  [rocks |-> resolveCollisions(t.rocks), moved |-> [at |-> t.moved, pre |-> t.rocks],
   grid |-> t.grid, anyMoving |-> t.anyMoving]

\* physicsTick(dt): sweepId is the id of the delivery rock when it is being
\* swept (sweepingRef.current && rock === deliveryRockRef.current), else -1
physicsTick(rocks, grid, T, dt, sweepId) ==
  EndTick(TickLoop(rocks, rocks, evaporateMoisture(grid, dt), 1, FALSE, T, dt, sweepId))

\* ------------------------------------------------------------ scoring
\* the square of d = sqrt((x - hx)^2 + (y - hy)^2), in (1/100)^2; the model
\* keeps every distance of scoreEnd as its square: sqrt is increasing, so
\* each comparison of distances is the same comparison of their squares.
\* A rock more than maxR from the button along one axis gets a square
\* above maxR^2 without the product being formed.
MaxR == Div(WORLD.houseRadii[4] + ROCK_RADIUS, 10)
DistSq(r) ==
  LET dx == Div(r.x - WORLD.houseCenter.x, 10)
      dy == Div(r.y - WORLD.houseCenter.y, 10)
  IN IF Abs(dx) > MaxR \/ Abs(dy) > MaxR THEN MaxR * MaxR + 1 ELSE dx * dx + dy * dy

\* dists[t].sort((a, b) => a - b), by insertion
RECURSIVE InsertSorted(_, _)
InsertSorted(seq, d) ==
  IF seq = <<>> THEN <<d>>
  ELSE IF d <= Head(seq) THEN <<d>> \o seq
  ELSE <<Head(seq)>> \o InsertSorted(Tail(seq), d)

\* every rock in play counted, in the house or not
EligibleAnywhere(r, t) == r.inPlay /\ r.team = t

\* rocks.filter(r => r.inPlay), then "if (d <= maxR) dists[r.team].push(d)"
Eligible(r, t) == r.inPlay /\ r.team = t /\ DistSq(r) <= MaxR * MaxR

RECURSIVE Dists(_, _, _)
Dists(rocks, t, k) ==
  IF k > Len(rocks) THEN <<>>
  ELSE IF Eligible(rocks[k], t) THEN InsertSorted(Dists(rocks, t, k + 1), DistSq(rocks[k]))
  ELSE Dists(rocks, t, k + 1)

\* seq.filter(d => d < limit).length
RECURSIVE CountBelow(_, _)
CountBelow(seq, limit) ==
  IF seq = <<>> THEN 0
  ELSE (IF Head(seq) < limit THEN 1 ELSE 0) + CountBelow(Tail(seq), limit)

\* scoreEnd counting every rock of the scoring team in the house
ScoreOfCountingAll(d0, d1) ==
  IF Len(d0) = 0 /\ Len(d1) = 0 THEN [scoringTeam |-> -1, pts |-> 0]
  ELSE IF Len(d1) = 0 THEN [scoringTeam |-> 0, pts |-> Len(d0)]
  ELSE IF Len(d0) = 0 THEN [scoringTeam |-> 1, pts |-> Len(d1)]
  ELSE IF d0[1] < d1[1] THEN [scoringTeam |-> 0, pts |-> Len(d0)]
  ELSE [scoringTeam |-> 1, pts |-> Len(d1)]

\* the branches of scoreEnd on the two sorted lists
ScoreOf(d0, d1) ==
  IF Len(d0) = 0 /\ Len(d1) = 0 THEN [scoringTeam |-> -1, pts |-> 0]
  ELSE IF Len(d1) = 0 THEN [scoringTeam |-> 0, pts |-> Len(d0)]
  ELSE IF Len(d0) = 0 THEN [scoringTeam |-> 1, pts |-> Len(d1)]
  ELSE IF d0[1] < d1[1] THEN [scoringTeam |-> 0, pts |-> CountBelow(d0, d1[1])]
  ELSE [scoringTeam |-> 1, pts |-> CountBelow(d1, d0[1])]

scoreEnd(rocks) == ScoreOf(Dists(rocks, 0, 1), Dists(rocks, 1, 1))

\* ------------------------------------------------------------ delivery
\* rock.angle = PI - (aimAngle / sheetHalfWidth) * 0.08 as (cos, sin):
\* cos(PI - d) = -cos d, sin(PI - d) = sin d, with d = aim * 0.08 / 82 at most
\* 0.08 rad, by the series cos d = 1 - d^2/2 and sin d = d - d^3/6
DeliveryAngle(aimAngle) ==
  LET d6 == Div(aimAngle * 80, WORLD.sheetHalfWidth \div 1000)
      d5 == Div(d6, 10)
  IN [cos |-> -(10000 - Div(d5 * d5, 2000000)),
      sin |-> Div(d6, 100) - Div(Div(d5 * d5, 10000) * d5, 60000000)]

\* the rock deliverRock picks: team currentTeam, id ti * ROCKS_PER_TEAM + ri
DeliveryId(currentTeam, rockNum) == currentTeam * ROCKS_PER_TEAM + rockNum \div 2

\* deliverRock(): power in tenths of a percent (velocity = power * 0.12 + 1.8), pt the value drawn for
\* paperTurns = 0.8 + Math.random() * 0.4, in hundredths
deliverRock(rocks, currentTeam, rockNum, aimAngle, power, curlDir, pt) ==
  LET k == DeliveryId(currentTeam, rockNum) + 1
  IN IF k \notin DOMAIN rocks \/ rocks[k].team # currentTeam THEN rocks
     ELSE [rocks EXCEPT ![k] =
             [@ EXCEPT !.x = WORLD.hackPos, !.y = aimAngle, !.angle = DeliveryAngle(aimAngle),
                       !.velocity = power * 120 + 18000, !.spin = curlDir, !.paperTurns = pt,
                       !.inPlay = TRUE, !.active = TRUE, !.stopped = FALSE,
                       !.hasContacted = FALSE]]

\* ------------------------------------------------------------ state
VARIABLES
  phase,            \* "title", "aiming", "power", "running", "scoring", "gameover"
  currentEnd, currentTeam, rockNum,
  scores,           \* <<per-end points of team 0, per-end points of team 1>>
  endScoreDisplay,  \* [set, scoringTeam, pts]; set = FALSE is null
  aimAngle, power, curlDir, iceProfile, tune,
  rocks,            \* rocksRef.current
  iceGrid,          \* iceGridRef.current.cells
  deliveryRockRef,  \* the id of the delivery rock, -1 for null
  sweepingRef,
  script,           \* the players' intentions and the draws of Math.random
  moved,            \* history of the last tick: the roster as its boundary rules saw
                    \* it (at) and as it was handed to resolveCollisions (pre)
  thrown,           \* history: <<team, id>> of each delivery of the current end
  steps,            \* the number of grid operations applied (ice grid specification)
  probe,            \* the arguments and the result of a function called on its own
  \* one call of simulate(opts) of the headless simulator, and the calls before it
  simPc,            \* "idle", "loop" (in the while loop), "done" (returned)
  simOpts, simT, simGrid, simRock, simTick, trace, simRemoved, removeReason, summary,
  runs              \* <<[opts, trace, summary]>> of the calls that returned

gameVars == <<phase, currentEnd, currentTeam, rockNum, scores, endScoreDisplay, aimAngle,
              power, curlDir, iceProfile, tune, deliveryRockRef, sweepingRef, script, thrown>>
simVars == <<simPc, simOpts, simT, simGrid, simRock, simTick, trace, simRemoved, removeReason,
             summary, runs>>
vars == <<gameVars, rocks, iceGrid, moved, steps, probe, simVars>>

TotalEnds == 8
NoScoreDisplay == [set |-> FALSE, scoringTeam |-> -1, pts |-> 0]
NoTick == [at |-> <<>>, pre |-> <<>>]

\* ------------------------------------------------------------ the game
\* A game is explored under a script: the shot each team intends (the aim and
\* the power at which its player taps, the handle, whether it sweeps from
\* release), the value Math.random yields for paperTurns, and the frame time.
ThroughShot == [aimAngle |-> 0, power |-> 1000, curlDir |-> 1, sweep |-> FALSE, paperTurns |-> 100]
DrawShot == [aimAngle |-> 0, power |-> 175, curlDir |-> -1, sweep |-> TRUE, paperTurns |-> 119]
HogShot == [aimAngle |-> 30000, power |-> 0, curlDir |-> 1, sweep |-> FALSE, paperTurns |-> 80]
Shots == {ThroughShot, DrawShot, HogShot}
Scripts == {[shots |-> <<s0, s1>>, dt |-> 50] : s0 \in Shots, s1 \in Shots}
NoScript == [shots |-> <<ThroughShot, ThroughShot>>, dt |-> 50]
Intended == script.shots[currentTeam + 1]

GameInit ==
  /\ phase = "title" /\ currentEnd = 1 /\ currentTeam = 0 /\ rockNum = 0
  /\ scores = <<<<>>, <<>>>> /\ endScoreDisplay = NoScoreDisplay
  /\ aimAngle = 0 /\ power = 0 /\ curlDir = 1 /\ iceProfile = "club"
  /\ tune = DEFAULTS /\ deliveryRockRef = -1 /\ sweepingRef = FALSE
  /\ script = NoScript /\ thrown = <<>>

\* the simulator at rest
SimIdle ==
  /\ simPc = "idle" /\ simOpts = <<>> /\ simT = <<>> /\ simGrid = <<>> /\ simRock = <<>>
  /\ simTick = 0 /\ trace = <<>> /\ simRemoved = FALSE /\ removeReason = "null"
  /\ summary = <<>> /\ runs = <<>>

Init ==
  /\ GameInit
  /\ rocks = <<>>
  /\ iceGrid = NewIceGrid
  /\ moved = NoTick
  /\ steps = 0 /\ probe = <<>>
  /\ SimIdle

\* handleAction, phase "title"
StartGame ==
  /\ UNCHANGED <<steps, probe, simVars>>
  /\ phase = "title"
  /\ \E sc \in Scripts : script' = sc
  /\ \E R \in DiscoveryDraws : iceGrid' = initIce(iceProfile, R)
  /\ rocks' = initEnd
  /\ phase' = "aiming" /\ currentTeam' = 0 /\ rockNum' = 0
  /\ scores' = <<<<>>, <<>>>> /\ currentEnd' = 1 /\ endScoreDisplay' = NoScoreDisplay
  /\ thrown' = <<>> /\ moved' = NoTick
  /\ UNCHANGED <<aimAngle, power, curlDir, iceProfile, tune, deliveryRockRef, sweepingRef>>

\* the interval of the aiming effect: aimAngle = sin(t) * max
AimValues == {sh.aimAngle : sh \in Shots}
AimTimer ==
  /\ UNCHANGED <<steps, probe, simVars>>
  /\ phase = "aiming"
  /\ \E a \in AimValues : a # aimAngle /\ aimAngle' = a
  /\ UNCHANGED <<phase, currentEnd, currentTeam, rockNum, scores, endScoreDisplay, power,
                 curlDir, iceProfile, tune, deliveryRockRef, sweepingRef, script, thrown,
                 rocks, iceGrid, moved>>

\* the interval of the power effect: power sweeps 0..100 in steps of 2.5
PowerValues == {sh.power : sh \in Shots}
PowerTimer ==
  /\ UNCHANGED <<steps, probe, simVars>>
  /\ phase = "power"
  /\ \E q \in PowerValues : q # power /\ power' = q
  /\ UNCHANGED <<phase, currentEnd, currentTeam, rockNum, scores, endScoreDisplay, aimAngle,
                 curlDir, iceProfile, tune, deliveryRockRef, sweepingRef, script, thrown,
                 rocks, iceGrid, moved>>

\* the curl button: setCurlDir(d => d * -1), shown while aiming or in power;
\* pressed when the handle is not the intended one
ToggleCurl ==
  /\ UNCHANGED <<steps, probe, simVars>>
  /\ phase \in {"aiming", "power"}
  /\ curlDir # Intended.curlDir
  /\ curlDir' = -curlDir
  /\ UNCHANGED <<phase, currentEnd, currentTeam, rockNum, scores, endScoreDisplay, aimAngle,
                 power, iceProfile, tune, deliveryRockRef, sweepingRef, script, thrown,
                 rocks, iceGrid, moved>>

\* handleAction, phase "aiming": tapped when the aim is the intended one
TapAim ==
  /\ UNCHANGED <<steps, probe, simVars>>
  /\ phase = "aiming"
  /\ aimAngle = Intended.aimAngle
  /\ phase' = "power"
  /\ UNCHANGED <<currentEnd, currentTeam, rockNum, scores, endScoreDisplay, aimAngle, power,
                 curlDir, iceProfile, tune, deliveryRockRef, sweepingRef, script, thrown,
                 rocks, iceGrid, moved>>

\* handleAction, phase "power": deliverRock(), tapped at the intended power
\* with the intended handle
TapRelease ==
  /\ UNCHANGED <<steps, probe, simVars>>
  /\ phase = "power"
  /\ power = Intended.power /\ curlDir = Intended.curlDir
  /\ rocks' = deliverRock(rocks, currentTeam, rockNum, aimAngle, power, curlDir, Intended.paperTurns)
  /\ deliveryRockRef' = DeliveryId(currentTeam, rockNum)
  /\ thrown' = Append(thrown, <<currentTeam, DeliveryId(currentTeam, rockNum)>>)
  /\ phase' = "running"
  /\ sweepingRef' = FALSE
  /\ UNCHANGED <<currentEnd, currentTeam, rockNum, scores, endScoreDisplay, aimAngle, power,
                 curlDir, iceProfile, tune, script, iceGrid, moved>>

\* handleAction, phase "running": sweepingRef.current = !sweepingRef.current;
\* a team that sweeps starts at release and keeps sweeping
TapSweep ==
  /\ UNCHANGED <<steps, probe, simVars>>
  /\ phase = "running"
  /\ Intended.sweep /\ ~sweepingRef
  /\ sweepingRef' = ~sweepingRef
  /\ UNCHANGED <<phase, currentEnd, currentTeam, rockNum, scores, endScoreDisplay, aimAngle,
                 power, curlDir, iceProfile, tune, deliveryRockRef, script, thrown,
                 rocks, iceGrid, moved>>

\* a blank end left out of the score lists
PushScoresSkippingBlank(prev, res) ==
  IF res.scoringTeam >= 0
  THEN [t \in {1, 2} |-> Append(prev[t], IF t = res.scoringTeam + 1 THEN res.pts ELSE 0)]
  ELSE prev

\* the scored end appended to the list of the scoring team only
PushScoresScorerOnly(prev, res) ==
  IF res.scoringTeam >= 0
  THEN [t \in {1, 2} |-> IF t = res.scoringTeam + 1 THEN Append(prev[t], res.pts) ELSE prev[t]]
  ELSE [t \in {1, 2} |-> Append(prev[t], 0)]

\* setScores(prev => ...): the scored end appended to both teams' lists
PushScores(prev, res) ==
  IF res.scoringTeam >= 0
  THEN [t \in {1, 2} |-> Append(prev[t], IF t = res.scoringTeam + 1 THEN res.pts ELSE 0)]
  ELSE [t \in {1, 2} |-> Append(prev[t], 0)]

\* one frame of the game loop effect: physicsTick(dt), and when nothing moved
\* the next delivery or the scoring of the end
GameLoop ==
  /\ UNCHANGED <<steps, probe, simVars>>
  /\ phase = "running"
  /\ Intended.sweep => sweepingRef
  /\ \E t \in {physicsTick(rocks, iceGrid, tune, script.dt,
                              IF sweepingRef THEN deliveryRockRef ELSE -1)} :
     LET next == rockNum + 1
     IN /\ rocks' = t.rocks
        /\ iceGrid' = t.grid
        /\ moved' = t.moved
        /\ IF t.anyMoving
           THEN UNCHANGED gameVars
           ELSE /\ sweepingRef' = FALSE
                /\ deliveryRockRef' = -1
                /\ IF next >= ROCKS_PER_END
                   THEN LET res == scoreEnd(t.rocks)
                        IN /\ endScoreDisplay' = [set |-> TRUE, scoringTeam |-> res.scoringTeam,
                                                  pts |-> res.pts]
                           /\ scores' = PushScores(scores, res)
                           /\ phase' = "scoring"
                           /\ UNCHANGED <<rockNum, currentTeam, aimAngle, power>>
                   ELSE /\ rockNum' = next
                        /\ currentTeam' = (IF next % 2 = 0 THEN 0 ELSE 1)
                        /\ phase' = "aiming"
                        /\ aimAngle' = 0
                        /\ power' = 0
                        /\ UNCHANGED <<endScoreDisplay, scores>>
                /\ UNCHANGED <<currentEnd, curlDir, iceProfile, tune, script, thrown>>

\* handleAction, phase "scoring": game over after the last end, else the next
\* end, first thrown by the team that scored (the current team after a blank end)
NextEnd ==
  /\ UNCHANGED <<steps, probe, simVars>>
  /\ phase = "scoring"
  /\ IF currentEnd >= TotalEnds
     THEN /\ phase' = "gameover"
          /\ UNCHANGED <<currentEnd, currentTeam, rockNum, aimAngle, power, endScoreDisplay,
                         rocks, thrown>>
     ELSE /\ currentEnd' = currentEnd + 1
          /\ currentTeam' = (IF endScoreDisplay.set /\ endScoreDisplay.scoringTeam >= 0
                             THEN endScoreDisplay.scoringTeam ELSE currentTeam)
          /\ rockNum' = 0 /\ aimAngle' = 0 /\ power' = 0
          /\ endScoreDisplay' = NoScoreDisplay
          /\ rocks' = initEnd
          /\ thrown' = <<>>
          /\ phase' = "aiming"
  /\ UNCHANGED <<scores, curlDir, iceProfile, tune, deliveryRockRef, sweepingRef, script,
                 iceGrid, moved>>

\* handleAction, phase "gameover"
BackToTitle ==
  /\ UNCHANGED <<steps, probe, simVars>>
  /\ phase = "gameover"
  /\ phase' = "title"
  /\ UNCHANGED <<currentEnd, currentTeam, rockNum, scores, endScoreDisplay, aimAngle, power,
                 curlDir, iceProfile, tune, deliveryRockRef, sweepingRef, script, thrown,
                 rocks, iceGrid, moved>>

Next ==
  \/ StartGame \/ AimTimer \/ PowerTimer \/ ToggleCurl \/ TapAim \/ TapRelease
  \/ TapSweep \/ GameLoop \/ NextEnd \/ BackToTitle

Spec == Init /\ [][Next]_vars

\* the number of ends scored so far in the game
EndsScored == Len(scores[1])

\* C18: a game has exactly 8 ends: the phase is "gameover" only when 8 ends
\* have been scored, and at every moment both teams' score lists have the
\* same length, the number of ends scored (the current end once it is scored,
\* the ends before it while it is played), with at most one team's entry of
\* each end nonzero.
C18_EightEnds ==
  /\ phase = "gameover" => (EndsScored = 8 /\ currentEnd = 8)
  /\ Len(scores[2]) = EndsScored
  /\ phase \in {"scoring", "gameover"} => EndsScored = currentEnd
  /\ phase \in {"aiming", "power", "running"} => EndsScored = currentEnd - 1
  /\ \A e \in 1..EndsScored : scores[1][e] = 0 \/ scores[2][e] = 0

\* the game is over: the eighth end has been played to its last rock and
\* scored, and the tap on the scoring screen has ended the game
C18_Witness ==
  /\ phase = "gameover" /\ currentEnd = 8
  /\ Len(thrown) = ROCKS_PER_END
  /\ Len(scores[1]) = 8 /\ Len(scores[2]) = 8

\* C26: in every reachable state every rock's velocity is nonnegative, and
\* it is exactly 0 for every rock that is not in play, parked before its
\* delivery or removed.
C26_Velocity ==
  \A k \in DOMAIN rocks :
    /\ rocks[k].velocity >= 0
    /\ ~rocks[k].inPlay => rocks[k].velocity = 0

\* a delivery is running while a rock of the end has been removed, another
\* lies at rest in play and others are still parked
C26_Witness ==
  /\ phase = "running"
  /\ \E k \in DOMAIN rocks : rocks[k].inPlay /\ rocks[k].velocity > 200
  /\ \E k \in DOMAIN rocks : rocks[k].inPlay /\ rocks[k].velocity <= 200
  /\ \E k \in DOMAIN rocks : ~rocks[k].inPlay /\ rocks[k].x = 800000
  /\ \E k \in DOMAIN rocks : ~rocks[k].inPlay /\ rocks[k].x # 800000

\* ------------------------------------------------------------ scoring alone
\* scoreEnd on rosters drawn from a bounded set: up to MaxPlaced rocks of each
\* team lie at rest at one of HouseSpots (offsets from the button, in world
\* units), the last rock of each team has been thrown down the centre line
\* and removed, the other rocks are parked as initEnd leaves them. Rocks
\* never overlap: distinct rocks in play are at least two radii apart.
MaxPlaced == 2
HouseSpots == {<<0, 0>>, <<10, 0>>, <<0, -10>>, <<-20, 0>>, <<0, 77>>, <<-50, 60>>}
PlacedIds == {t * ROCKS_PER_TEAM + i : t \in {0, 1}, i \in 0 .. (MaxPlaced - 1)}

Place(rock, spot) ==
  [rock EXCEPT !.x = WORLD.houseCenter.x + spot[1] * 1000, !.y = WORLD.houseCenter.y + spot[2] * 1000,
               !.angle = [cos |-> -10000, sin |-> 0], !.inPlay = TRUE, !.active = TRUE,
               !.stopped = TRUE]

NoOverlap(roster) ==
  \A i, j \in DOMAIN roster :
    (i < j /\ roster[i].inPlay /\ roster[j].inPlay) => Apart(roster[i], roster[j])

ScoreRosters ==
  {roster \in {[k \in 1 .. ROCKS_PER_END |->
                  IF (k - 1) \in PlacedIds /\ f[k - 1] # <<>> THEN Place(initEnd[k], f[k - 1])
                  ELSE IF k % ROCKS_PER_TEAM = 0 THEN removeRock(Place(initEnd[k], <<0, 0>>))
                  ELSE initEnd[k]] : f \in [PlacedIds -> HouseSpots \cup {<<>>}]} :
     NoOverlap(roster)}

InitScore ==
  /\ phase = "running" /\ currentEnd = 1 /\ currentTeam = 1 /\ rockNum = ROCKS_PER_END - 1
  /\ scores = <<<<>>, <<>>>> /\ endScoreDisplay = NoScoreDisplay
  /\ aimAngle = 0 /\ power = 0 /\ curlDir = 1 /\ iceProfile = "club"
  /\ tune = DEFAULTS /\ deliveryRockRef = -1 /\ sweepingRef = FALSE
  /\ script = NoScript /\ thrown = <<>>
  /\ rocks \in ScoreRosters
  /\ iceGrid = <<>> /\ moved = NoTick /\ steps = 0 /\ probe = <<>>
  /\ SimIdle

\* the scoring branch of the game loop: res = scoreEnd(), shown and recorded
ScoreRoster ==
  /\ phase = "running"
  /\ \E res \in {scoreEnd(rocks)} :
       /\ endScoreDisplay' = [set |-> TRUE, scoringTeam |-> res.scoringTeam, pts |-> res.pts]
       /\ scores' = PushScores(scores, res)
  /\ phase' = "scoring"
  /\ UNCHANGED <<currentEnd, currentTeam, rockNum, aimAngle, power, curlDir, iceProfile, tune,
                 deliveryRockRef, sweepingRef, script, thrown, rocks, iceGrid, moved, steps, probe,
                 simVars>>

NextScore == ScoreRoster

SpecScore == InitScore /\ [][NextScore]_vars

\* the rocks of team t that count: in play and within the house
InHouse(t) == {k \in DOMAIN rocks : rocks[k].inPlay /\ rocks[k].team = t /\ DistSq(rocks[k]) <= MaxR * MaxR}
\* team t's closest rock is strictly nearer the button than every rock of the
\* other team that counts (in particular when the other team has none)
StrictlyNearer(t) ==
  /\ InHouse(t) # {}
  /\ \E k \in InHouse(t) : \A m \in InHouse(1 - t) : DistSq(rocks[k]) < DistSq(rocks[m])
\* the rocks of team t strictly closer than every counting rock of the other team
Counting(t) == {k \in InHouse(t) : \A m \in InHouse(1 - t) : DistSq(rocks[k]) < DistSq(rocks[m])}

\* C1: when a team's closest eligible rock is strictly nearer the button than
\* the other team's closest eligible rock (or the other team has none in the
\* house), scoreEnd awards the end to that team, with one point for each of
\* its eligible rocks strictly closer than the opponent's closest one.
C1_ScoreEnd ==
  endScoreDisplay.set =>
    \A t \in {0, 1} :
      StrictlyNearer(t) =>
        /\ endScoreDisplay.scoringTeam = t
        /\ endScoreDisplay.pts = Cardinality(Counting(t))

\* C1 witness: an end scored with both teams in the house and two points
C1_Witness ==
  /\ endScoreDisplay.set
  /\ InHouse(0) # {} /\ InHouse(1) # {}
  /\ \E t \in {0, 1} : StrictlyNearer(t) /\ Cardinality(Counting(t)) = 2
                       /\ endScoreDisplay.scoringTeam = t

\* C16: the result of scoreEnd is decided by the rocks in play within
\* houseRadii[3] + ROCK_RADIUS of the button alone: the scoring team has such
\* a rock at least as near as any of the other team's, its points are the
\* number of its such rocks strictly nearer than all of the other team's, and
\* no team scores only when there is no such rock at all.
C16_OnlyEligibleCount ==
  endScoreDisplay.set =>
    /\ endScoreDisplay.scoringTeam < 0 =>
         (InHouse(0) = {} /\ InHouse(1) = {} /\ endScoreDisplay.pts = 0)
    /\ \A t \in {0, 1} :
         endScoreDisplay.scoringTeam = t =>
           /\ InHouse(t) # {}
           /\ \A m \in InHouse(1 - t) :
                \E k \in InHouse(t) : DistSq(rocks[k]) <= DistSq(rocks[m])
           /\ endScoreDisplay.pts = Cardinality(Counting(t))

\* an end scored by a team while the other team's only rock in play lies
\* outside the house, with removed and undelivered rocks in the roster
C16_Witness ==
  /\ endScoreDisplay.set
  /\ \E t \in {0, 1} :
       /\ endScoreDisplay.scoringTeam = t /\ endScoreDisplay.pts >= 1
       /\ InHouse(1 - t) = {}
       /\ \E k \in DOMAIN rocks : rocks[k].team = 1 - t /\ rocks[k].inPlay
  /\ \E k \in DOMAIN rocks : ~rocks[k].inPlay /\ rocks[k].x = 800000
  /\ \E k \in DOMAIN rocks : ~rocks[k].inPlay /\ rocks[k].x # 800000

\* C17: when neither team has a rock in play in the house, scoreEnd reports
\* no scoring team and zero points, and the end is recorded as 0 for both.
C17_BlankEnd ==
  (endScoreDisplay.set /\ InHouse(0) = {} /\ InHouse(1) = {}) =>
    /\ endScoreDisplay.scoringTeam = -1 /\ endScoreDisplay.pts = 0
    /\ Len(scores[1]) = currentEnd /\ Len(scores[2]) = currentEnd
    /\ scores[1][currentEnd] = 0 /\ scores[2][currentEnd] = 0

\* a blank end scored with a rock in play outside the house
C17_Witness ==
  /\ endScoreDisplay.set /\ InHouse(0) = {} /\ InHouse(1) = {}
  /\ \E k \in DOMAIN rocks : rocks[k].inPlay
  /\ scores = <<<<0>>, <<0>>>>

\* C28: whenever scoreEnd names a scoring team it gives that team at least
\* one point and at most eight, also when the two teams' closest rocks are
\* exactly as far from the button as each other.
C28_ScorerHasPoints ==
  (endScoreDisplay.set /\ endScoreDisplay.scoringTeam >= 0) =>
    endScoreDisplay.pts \in 1 .. ROCKS_PER_TEAM

\* ------------------------------------------------------------ the tick alone
\* physicsTick on rosters drawn from a bounded set, ticked until nothing
\* moves. A target rock lies at rest on the sheet beyond the hog line; a
\* shooter starts Gap outside contact with it (or alone, short of the hog
\* line) and runs at it; a third rock may lie at rest behind the target. A
\* rock whose heading is not the heading of a delivery has been in contact.
TargetSpots == {<<-500000, 76900>>, <<-606500, 0>>, <<-450000, 0>>}
\* where the shooter starts from the target, and its heading (cos, sin)
Approaches ==
  { [from |-> <<10000, 0>>, gap |-> <<1, 0>>, angle |-> [cos |-> -10000, sin |-> 0], natural |-> TRUE],
    [from |-> <<0, -10000>>, gap |-> <<0, -1>>, angle |-> [cos |-> 0, sin |-> 10000], natural |-> FALSE],
    [from |-> <<8000, -6000>>, gap |-> <<1, 0>>, angle |-> [cos |-> -10000, sin |-> 0], natural |-> TRUE],
    [from |-> <<100000, -40000>>, gap |-> <<0, 0>>, angle |-> [cos |-> -10000, sin |-> 0], natural |-> TRUE] }
Gaps == {50, 300}
ShooterSpeeds == {900, 3000, 30000}
TickDts == {16, 50}

TickRoster(spot, ap, gap, speed, third, contacted) ==
  [k \in 1 .. ROCKS_PER_END |->
     IF k = 1
     THEN [initEnd[k] EXCEPT !.x = spot[1], !.y = spot[2], !.angle = [cos |-> -10000, sin |-> 0],
                             !.inPlay = TRUE, !.active = TRUE, !.stopped = TRUE]
     ELSE IF k = 2 /\ third
     THEN [initEnd[k] EXCEPT !.x = spot[1] - ap.gap[1] * 10 - ap.from[1],
                             !.y = spot[2] - ap.gap[2] * 10 - ap.from[2],
                             !.angle = [cos |-> -10000, sin |-> 0],
                             !.inPlay = TRUE, !.active = TRUE, !.stopped = TRUE]
     ELSE IF k = ROCKS_PER_TEAM + 1
     THEN [initEnd[k] EXCEPT !.x = spot[1] + ap.from[1] + ap.gap[1] * gap,
                             !.y = spot[2] + ap.from[2] + ap.gap[2] * gap,
                             !.angle = ap.angle, !.velocity = speed,
                             !.inPlay = TRUE, !.active = TRUE,
                             !.hasContacted = contacted]
     ELSE initEnd[k]]

OnSheet(rock) == ~OverBackLine(rock) /\ ~OverSideboard(rock)

TickRosters ==
  {roster \in {TickRoster(spot, ap, gap, speed, third, contacted) :
                 spot \in TargetSpots, ap \in Approaches, gap \in Gaps, speed \in ShooterSpeeds,
                 third \in BOOLEAN, contacted \in BOOLEAN} :
     /\ NoOverlap(roster)
     /\ \A k \in DOMAIN roster : roster[k].inPlay => OnSheet(roster[k])
     /\ roster[ROCKS_PER_TEAM + 1].angle.sin # 0 => roster[ROCKS_PER_TEAM + 1].hasContacted}

InitTick ==
  /\ phase = "running" /\ currentEnd = 1 /\ currentTeam = 1 /\ rockNum = 1
  /\ scores = <<<<>>, <<>>>> /\ endScoreDisplay = NoScoreDisplay
  /\ aimAngle = 0 /\ power = 0 /\ curlDir = 1 /\ iceProfile = "club"
  /\ tune = DEFAULTS /\ deliveryRockRef = ROCKS_PER_TEAM
  /\ sweepingRef \in BOOLEAN
  /\ \E dt \in TickDts : script = [shots |-> <<ThroughShot, ThroughShot>>, dt |-> dt]
  /\ thrown = <<>>
  /\ rocks \in TickRosters
  /\ iceGrid = initIce(iceProfile, CHOOSE R \in DiscoveryDraws : TRUE)
  /\ moved = [at |-> rocks, pre |-> rocks]
  /\ steps = 0 /\ probe = <<>>
  /\ SimIdle

\* one call of physicsTick(dt); the frame on which it returns false is the
\* last of the delivery
TickStep ==
  /\ phase = "running"
  /\ \E t \in {physicsTick(rocks, iceGrid, tune, script.dt,
                           IF sweepingRef THEN deliveryRockRef ELSE -1)} :
       /\ rocks' = t.rocks
       /\ iceGrid' = t.grid
       /\ moved' = t.moved
       /\ phase' = IF t.anyMoving THEN "running" ELSE "aiming"
  /\ UNCHANGED <<currentEnd, currentTeam, rockNum, scores, endScoreDisplay, aimAngle, power,
                 curlDir, iceProfile, tune, deliveryRockRef, sweepingRef, script, thrown, steps, probe,
                 simVars>>

NextTick == TickStep

SpecTick == InitTick /\ [][NextTick]_vars

\* no rock in play has a velocity above 0.02
NothingMoves == \A k \in DOMAIN rocks : ~(rocks[k].inPlay /\ rocks[k].velocity > 200)

\* C22: physicsTick returns false, and the delivery ends, only if no rock in
\* play has a velocity above 0.02 at the start of the tick, and then no rock
\* is moving after that tick either: the game is never out of the running
\* phase while a rock, including one set in motion by a collision, moves.
C22_EndsAtRest ==
  /\ [](phase # "running" => NothingMoves)
  /\ [][(phase = "running" /\ phase' # "running") => (NothingMoves /\ NothingMoves')]_vars

\* the delivery has ended with the shooter and the rock it struck both in
\* play, after a collision that set the struck rock in motion
C22_Witness ==
  /\ phase = "aiming"
  /\ rocks[1].inPlay /\ rocks[1].hasContacted
  /\ rocks[ROCKS_PER_TEAM + 1].inPlay /\ rocks[ROCKS_PER_TEAM + 1].hasContacted
  /\ rocks[1].angle # [cos |-> -10000, sin |-> 0]
  /\ NothingMoves

\* the rock is passed over by physicsTick's loop: out of play, or in play
\* with a velocity of at most 0.02
AtRest(rock) == ~rock.inPlay \/ rock.velocity <= 200

\* two records of one rock with the same position, heading and velocity
SameMotion(r1, r2) ==
  r1.x = r2.x /\ r1.y = r2.y /\ r1.angle = r2.angle /\ r1.velocity = r2.velocity

\* rock k lay within two radii of another rock in play when the last tick's
\* resolveCollisions ran
Touched(k) ==
  /\ moved.pre[k].inPlay
  /\ \E j \in DOMAIN rocks \ {k} : moved.pre[j].inPlay /\ ~Apart(moved.pre[k], moved.pre[j])

\* C27: a rock that starts a tick out of play or with a velocity of at most
\* 0.02 comes out of the tick's loop over the rocks with the position,
\* heading and velocity it had, and has them after the tick unless it took
\* part in a collision during the tick; slope and curl never move it.
C27_RestingRocksStay ==
  [][\A k \in DOMAIN rocks :
       AtRest(rocks[k]) =>
         /\ SameMotion(rocks[k], moved'.pre[k])
         /\ SameMotion(rocks[k], rocks'[k]) \/ Touched(k)']_vars

\* after a tick in which the shooter ran on without touching another rock:
\* a rock lies at rest in play where the ice slopes sideways, uncontacted,
\* and other rocks are out of play
C27_Witness ==
  /\ phase = "running"
  /\ rocks[ROCKS_PER_TEAM + 1].inPlay
  /\ rocks[ROCKS_PER_TEAM + 1].velocity > 200
  /\ rocks[ROCKS_PER_TEAM + 1].velocity \notin ShooterSpeeds
  /\ rocks[1].inPlay /\ rocks[1].velocity = 0 /\ ~rocks[1].hasContacted
  /\ <<rocks[1].x, rocks[1].y>> \in TargetSpots
  /\ sampleSlope(iceGrid, rocks[1].x, rocks[1].y).sy # 0
  /\ ~rocks[3].inPlay

\* a rock the last tick took out of play
RemovedInTick(k) == moved.at[k].inPlay /\ ~moved.pre[k].inPlay

\* C5: at the end of every tick no in-play rock that never contacted another
\* rock is at rest (velocity <= 0.02) with x > hogLine - radius; a rock that
\* has stopped there uncontacted was removed in that very tick; and a rock
\* that has contacted another is removed only for the back line or a sideboard.
C5_HogLine ==
  /\ \A k \in DOMAIN rocks :
       rocks[k].inPlay /\ ~rocks[k].hasContacted /\ rocks[k].velocity <= 200
         => rocks[k].x <= WORLD.hogLine - ROCK_RADIUS
  /\ \A k \in DOMAIN moved.at :
       /\ (RemovedInTick(k) /\ moved.at[k].hasContacted)
            => (OverBackLine(moved.at[k]) \/ OverSideboard(moved.at[k]))
       /\ (RemovedInTick(k) /\ OnSheet(moved.at[k]))
            => (moved.at[k].velocity <= 200 /\ moved.at[k].x > WORLD.hogLine - ROCK_RADIUS)

\* an uncontacted rock has just stopped short of the hog line, on the sheet,
\* and the tick has removed it
C5_Witness ==
  \E k \in DOMAIN moved.at :
    /\ RemovedInTick(k) /\ OnSheet(moved.at[k]) /\ ~moved.at[k].hasContacted
    /\ moved.at[k].velocity <= 200 /\ moved.at[k].x > WORLD.hogLine - ROCK_RADIUS
    /\ ~rocks[k].inPlay /\ rocks[k].x = 800000

\* C6: at the end of every tick every in-play rock is on the sheet:
\* x - radius >= backLine and |y| + radius <= sheetHalfWidth.
C6_OnSheet == \A k \in DOMAIN rocks : rocks[k].inPlay => OnSheet(rocks[k])

\* two in-play rocks overlap: their centres differ and are less than two
\* radii apart
Overlapping(a, b) == a.inPlay /\ b.inPlay /\ ~Apart(a, b) /\ (a.x # b.x \/ a.y # b.y)

\* the relative velocity of a and b along the line of centres is closing
Closing(a, b) ==
  Div(VelX(a) - VelX(b), 10) * (b.x - a.x) + Div(VelY(a) - VelY(b), 10) * (b.y - a.y) > 0

\* centres twice the radius apart, to a hundredth of a unit
Separated(a, b) ==
  /\ Abs(a.x - b.x) <= 2 * ROCK_RADIUS + 10 /\ Abs(a.y - b.y) <= 2 * ROCK_RADIUS + 10
  /\ (a.x - b.x) * (a.x - b.x) + (a.y - b.y) * (a.y - b.y) >= (2 * ROCK_RADIUS - 10) * (2 * ROCK_RADIUS - 10)
  /\ (a.x - b.x) * (a.x - b.x) + (a.y - b.y) * (a.y - b.y) <= (2 * ROCK_RADIUS + 10) * (2 * ROCK_RADIUS + 10)

\* rock k is at least three radii from rock a
Clear(k, a) ==
  \/ Abs(k.x - a.x) >= 3 * ROCK_RADIUS \/ Abs(k.y - a.y) >= 3 * ROCK_RADIUS
  \/ (k.x - a.x) * (k.x - a.x) + (k.y - a.y) * (k.y - a.y) >= 9 * ROCK_RADIUS * ROCK_RADIUS

\* the last tick left rocks i and j two radii apart, each moved by half the
\* overlap in opposite directions, both marked as contacted
Resolved(i, j) ==
  /\ Separated(rocks[i], rocks[j])
  /\ rocks[i].x - moved.pre[i].x = moved.pre[j].x - rocks[j].x
  /\ rocks[i].y - moved.pre[i].y = moved.pre[j].y - rocks[j].y
  /\ Abs(2 * Hypot(rocks[i].x - moved.pre[i].x, rocks[i].y - moved.pre[i].y)
           - (2 * ROCK_RADIUS - Hypot(moved.pre[i].x - moved.pre[j].x,
                                      moved.pre[i].y - moved.pre[j].y))) <= 10
  /\ rocks[i].hasContacted /\ rocks[j].hasContacted

\* C7: two overlapping in-play rocks with closing velocity end the
\* tick with centre distance twice the radius, each moved by half the overlap
\* along the normal, and hasContacted on both.
C7_AnyPair ==
  \A i, j \in DOMAIN moved.pre :
    (i < j /\ Overlapping(moved.pre[i], moved.pre[j]) /\ Closing(moved.pre[i], moved.pre[j]))
      => Resolved(i, j)

\* the pair is one resolveCollisions acts on alone: one of the two is faster
\* than 0.05 and no third in-play rock is within three radii of either
ActedOnAlone(i, j) ==
  /\ moved.pre[i].velocity > 500 \/ moved.pre[j].velocity > 500
  /\ \A k \in DOMAIN moved.pre \ {i, j} :
       moved.pre[k].inPlay => (Clear(moved.pre[k], moved.pre[i]) /\ Clear(moved.pre[k], moved.pre[j]))

\* what resolveCollisions does bring about: two overlapping in-play rocks
\* with closing velocity, at least one of them faster than 0.05 and no third
\* in-play rock within three radii of either, end the tick with centre
\* distance twice the radius, each moved by half the overlap in opposite
\* directions, and hasContacted on both.
PairActedOnAloneResolved ==
  \A i, j \in DOMAIN moved.pre :
    (/\ i < j
     /\ Overlapping(moved.pre[i], moved.pre[j])
     /\ Closing(moved.pre[i], moved.pre[j])
     /\ ActedOnAlone(i, j))
      => Resolved(i, j)

\* the deliveries of the end so far made by team t
ThrownBy(t) == {n \in 1 .. Len(thrown) : thrown[n][1] = t}

\* C2: in every end the deliveries alternate between the two teams, and when
\* the end is scored sixteen rocks have been delivered, eight by each team.
C2_Alternate ==
  /\ \A n \in 1 .. Len(thrown) - 1 : thrown[n][1] # thrown[n + 1][1]
  /\ phase = "scoring" =>
       /\ Len(thrown) = ROCKS_PER_END
       /\ Cardinality(ThrownBy(0)) = ROCKS_PER_TEAM
       /\ Cardinality(ThrownBy(1)) = ROCKS_PER_TEAM

\* C3: when an end after the first is scored, its last rock was delivered by
\* the team that did not score in the previous end.
C3_Hammer ==
  (phase = "scoring" /\ currentEnd > 1 /\ Len(thrown) = ROCKS_PER_END) =>
    \A t \in {0, 1} :
      scores[t + 1][currentEnd - 1] > 0 => thrown[ROCKS_PER_END][1] # t

\* a rock as removeRock leaves it
Removed(rock) == ~rock.inPlay /\ rock.velocity = 0 /\ rock.x = 800000

\* C4: a rock that has been removed is not in play after any step.
C4_RemovalTerminal ==
  [][\A k \in DOMAIN rocks : Removed(rocks[k]) => ~rocks'[k].inPlay]_vars

\* C30: within one end no rock is delivered twice, and when the end is
\* scored the sixteen deliveries have used the sixteen rocks of the roster,
\* each exactly once.
C30_DistinctRocks ==
  /\ \A m, n \in 1 .. Len(thrown) : m # n => thrown[m][2] # thrown[n][2]
  /\ phase = "scoring" =>
       {thrown[n][2] : n \in 1 .. Len(thrown)} = 0 .. (ROCKS_PER_END - 1)

\* ------------------------------------------------------------ the ice alone
\* applyWear and evaporateMoisture, with dt >= 0 as the game loop and the
\* simulator pass it, on a grid initialised from any profile of the game:
\* fresh, or as PreWear sweeping passes over the button have left it
MaxIceOps == 3
PreWear == {0, 502, 571}
WearPoints == {<<-540000, 0>>, <<-640000, -79000>>}
WearRates == {15, 100}
EvaporateDts == {16, 50}

\* the grid after n sweeping passes of 50 ms over the button at wear rate
\* 0.01: n calls of applyWear at one point leave what one call with n * dt
\* leaves, each cell losing and gaining in proportion to dt down to the floor
\* and up to the cap
WearTimes(grid, n) ==
  IF n = 0 THEN grid ELSE applyWear(grid, -540000, 0, n * 50, TRUE, 100)

InitIce ==
  /\ phase = "title" /\ currentEnd = 1 /\ currentTeam = 0 /\ rockNum = 0
  /\ scores = <<<<>>, <<>>>> /\ endScoreDisplay = NoScoreDisplay
  /\ aimAngle = 0 /\ power = 0 /\ curlDir = 1
  /\ iceProfile \in GameProfiles
  /\ tune = DEFAULTS /\ deliveryRockRef = -1 /\ sweepingRef = FALSE
  /\ script = NoScript /\ thrown = <<>>
  /\ rocks = <<>>
  /\ \E R \in DiscoveryDraws, n \in PreWear : iceGrid = WearTimes(initIce(iceProfile, R), n)
  /\ moved = NoTick
  /\ steps = 0 /\ probe = <<>>
  /\ SimIdle

\* grid.applyWear(x, y, dt, isSweeping, wearRate)
IceWear ==
  /\ steps < MaxIceOps
  /\ \E pt \in WearPoints, isSweeping \in BOOLEAN, wearRate \in WearRates :
       iceGrid' = applyWear(iceGrid, pt[1], pt[2], 50, isSweeping, wearRate)
  /\ steps' = steps + 1
  /\ UNCHANGED <<gameVars, rocks, moved, probe, simVars>>

\* grid.evaporateMoisture(dt)
IceEvaporate ==
  /\ steps < MaxIceOps
  /\ \E dt \in EvaporateDts : iceGrid' = evaporateMoisture(iceGrid, dt)
  /\ steps' = steps + 1
  /\ UNCHANGED <<gameVars, rocks, moved, probe, simVars>>

NextIce == IceWear \/ IceEvaporate

SpecIce == InitIce /\ [][NextIce]_vars

\* C8: after profile initialisation and any sequence of applyWear (sweeping or
\* not) and evaporateMoisture calls, every cell has pebbleHeight >= 0 and
\* 0 <= moisture <= 1.
C8_CellRanges ==
  \A c \in DOMAIN iceGrid : \A r \in DOMAIN iceGrid[c] :
    /\ iceGrid[c][r].pebbleHeight >= 0
    /\ iceGrid[c][r].moisture >= 0
    /\ iceGrid[c][r].moisture <= 1000000

\* wear has taken a cell's pebble down to the floor with its moisture at the
\* cap, and evaporation has taken another cell's moisture down to the floor
C8_Witness ==
  /\ steps > 0
  /\ \E c \in DOMAIN iceGrid : \E r \in DOMAIN iceGrid[c] :
       iceGrid[c][r].pebbleHeight = 0 /\ iceGrid[c][r].moisture = 1000000

\* ------------------------------------------------------------ the simulator
\* simulate(opts) of the headless simulator: aim and positions in 1/1000,
\* power in percent, paperTurns in 1/100, dt in ms, the tuning in the units
\* of the game's
SIM_DEFAULTS == [baseFriction |-> 80000, pebbleFrictionBonus |-> 70, curlCoeff |-> 40,
                 gradientCoeff |-> 80, slopeGravity |-> 18, frictionDecel |-> 50,
                 speedScale |-> 60, wearRate |-> 15, sweepBoost |-> 15]

\* the cap on tick in the condition of the while loop
TickCap == 10000

\* { ...DEFAULTS, ...tuneOverrides }
MergeTune(defaults, overrides) ==
  [k \in DOMAIN defaults |-> IF k \in DOMAIN overrides THEN overrides[k] ELSE defaults[k]]

\* a / b for b > 0, rounded to the nearest integer as toFixed rounds
RoundDiv(a, b) == IF a >= 0 THEN (2 * a + b) \div (2 * b) ELSE -((-2 * a + b) \div (2 * b))

\* the grid every call starts from, whatever grid the call before has left
SimSharedGrid(profile) ==
  IF simGrid = <<>>
  THEN (IF profile \in SimProfiles
        THEN ProfileInit(NewIceGrid, profile, CHOOSE R \in DiscoveryDraws : TRUE)
        ELSE NewIceGrid)
  ELSE simGrid

\* new IceGrid(); if (ICE_PROFILES[profile]) ICE_PROFILES[profile].init(grid)
SimNewGrid(profile) ==
  IF profile \in SimProfiles
  THEN ProfileInit(NewIceGrid, profile, CHOOSE R \in DiscoveryDraws : TRUE)
  ELSE NewIceGrid

\* the rock of the call: velocity = 1.8 + 2.6 * sqrt(power / 100)
SimRock(opts) ==
  [x |-> WORLD.hackPos, y |-> opts.aim, angle |-> [cos |-> -10000, sin |-> 0],
   velocity |-> 18000 + Div(26 * Sqrt(opts.power * 1000000), 10),
   spin |-> opts.spin, paperTurns |-> opts.paperTurns, inPlay |-> TRUE,
   hasContacted |-> FALSE]

\* the simulator's velocity factor max(0.3, sqrt(v / 2)), in 1/10000
SimVFactor(v) == Max(3000, Sqrt(v * 5000))

\* the three boundary checks, each made whatever the ones before it found
SimRemoveReason(rock, reason) ==
  IF HogLineViolation(rock) THEN "hog_line"
  ELSE IF OverSideboard(rock) THEN "sideboard"
  ELSE IF OverBackLine(rock) THEN "back_line"
  ELSE reason

SimOffSheet(rock) == OverBackLine(rock) \/ OverSideboard(rock) \/ HogLineViolation(rock)

\* "Apply", the wear and the boundary checks, given the trace entry e of the
\* tick and the longitudinal slope force
SimApply(rock, grid, T, dt, sweep, e, slopeXF) ==
  LET m == MoveRock(rock, e.velocity, e.spinCurl + e.gradDrift + e.slopeY, slopeXF, T, dt)
  IN [rock |-> [m EXCEPT !.inPlay = ~SimOffSheet(m)],
      grid |-> applyWear(grid, m.x, m.y, dt, sweep, T.wearRate),
      entry |-> e, removed |-> SimOffSheet(m), moved |-> m]

\* the forces on the rock of velocity v after "Deceleration", and the trace
\* entry, recorded before they are applied
SimForces(rock, grid, T, dt, sweep, friction, slope, v, vFactor, fL, fR) ==
  SimApply(rock, grid, T, dt, sweep,
           [x |-> rock.x, y |-> rock.y, velocity |-> v, angle |-> rock.angle,
            spinCurl |-> CurlForce(rock, friction, T, vFactor),
            gradDrift |-> Div(Div((fL - fR) * T.gradientCoeff, 1000) * vFactor, 10000),
            slopeY |-> SlopeForce(slope.sy, T, v), friction |-> friction,
            vFactor |-> vFactor, fL |-> fL, fR |-> fR],
           SlopeForce(slope.sx, T, v))

SimDecelerated(rock, grid, T, dt, sweep, friction, slope, v) ==
  SimForces(rock, grid, T, dt, sweep, friction, slope, v, SimVFactor(v),
            sampleFriction(grid, rock.x + Div(-rock.angle.sin * CURL_SAMPLE_OFFSET, 10000),
                           rock.y + Div(rock.angle.cos * CURL_SAMPLE_OFFSET, 10000),
                           T.baseFriction, T.pebbleFrictionBonus),
            sampleFriction(grid, rock.x - Div(-rock.angle.sin * CURL_SAMPLE_OFFSET, 10000),
                           rock.y - Div(rock.angle.cos * CURL_SAMPLE_OFFSET, 10000),
                           T.baseFriction, T.pebbleFrictionBonus))

SimSampled(rock, grid, T, dt, sweep, friction, slope) ==
  SimDecelerated(rock, grid, T, dt, sweep, friction, slope,
                 Decelerate(rock.velocity, friction, T, dt, sweep))

\* the body of the while loop on the grid after evaporateMoisture(dt)
SimBody(rock, grid, T, dt, sweep) ==
  SimSampled(rock, grid, T, dt, sweep,
             sampleFriction(grid, rock.x, rock.y, T.baseFriction, T.pebbleFrictionBonus),
             sampleSlope(grid, rock.x, rock.y))

\* trace.push(entry): the trace is kept as runs of consecutive ticks with the
\* same entry, [from, n, e] standing for the entries of ticks from .. from+n-1
TracePush(tr, tick, e) ==
  IF tr # <<>> /\ tr[Len(tr)].e = e /\ tr[Len(tr)].from + tr[Len(tr)].n = tick
  THEN [tr EXCEPT ![Len(tr)].n = @ + 1]
  ELSE Append(tr, [from |-> tick, n |-> 1, e |-> e])

\* trace.length
TraceLength(tr) == IF tr = <<>> THEN 0 ELSE tr[Len(tr)].from + tr[Len(tr)].n

\* (last.x - hx) ** 2 + (last.y - hy) ** 2, in 1/100 squared
SimDistSq(e) ==
  Div(e.x - WORLD.houseCenter.x, 10) * Div(e.x - WORLD.houseCenter.x, 10)
  + Div(e.y - WORLD.houseCenter.y, 10) * Div(e.y - WORLD.houseCenter.y, 10)

\* the summary; totalCurl in 1/100, distToButton in 1/10, duration in 1/100 s
SimSummary(opts, T, tr, tick, removed, reason) ==
  [name |-> "unnamed", aim |-> opts.aim, power |-> opts.power, spin |-> opts.spin,
   profile |-> opts.profile, paperTurns |-> opts.paperTurns, sweep |-> opts.sweep,
   tune |-> T,
   finalX |-> IF tr = <<>> THEN "undefined" ELSE tr[Len(tr)].e.x,
   finalY |-> IF tr = <<>> THEN "undefined" ELSE tr[Len(tr)].e.y,
   totalCurl |-> IF tr = <<>> THEN 0 ELSE RoundDiv(tr[Len(tr)].e.y - opts.aim, 10),
   distToButton |-> IF tr = <<>> THEN "Infinity"
                    ELSE RoundDiv(Sqrt(SimDistSq(tr[Len(tr)].e)), 10),
   inHouse |-> IF tr = <<>> THEN FALSE ELSE SimDistSq(tr[Len(tr)].e) <= MaxR * MaxR,
   removed |-> removed, removeReason |-> reason,
   ticks |-> tick, duration |-> RoundDiv(tick * opts.dt, 10)]

\* the calls explored: a swept draw on club ice with a tuning override, a
\* light throw, a heavy throw from near the sideboard on arena ice, a draw on
\* a profile the simulator does not know, and a call with dt = 0, whose rock
\* never slows
NoOverrides == [k \in {} |-> 0]
RepeatOptions ==
  { [aim |-> 0, power |-> 45, spin |-> 1, profile |-> "club", paperTurns |-> 100,
     sweep |-> TRUE, tune |-> [wearRate |-> 100], dt |-> 50],
    [aim |-> 0, power |-> 10, spin |-> -1, profile |-> "championship", paperTurns |-> 100,
     sweep |-> FALSE, tune |-> NoOverrides, dt |-> 50],
    [aim |-> 60000, power |-> 95, spin |-> 1, profile |-> "arena", paperTurns |-> 120,
     sweep |-> FALSE, tune |-> NoOverrides, dt |-> 16],
    [aim |-> -20000, power |-> 42, spin |-> -1, profile |-> "discovery", paperTurns |-> 80,
     sweep |-> TRUE, tune |-> NoOverrides, dt |-> 50] }
StuckOptions ==
  { [aim |-> 0, power |-> 45, spin |-> 1, profile |-> "swingy", paperTurns |-> 100,
     sweep |-> TRUE, tune |-> NoOverrides, dt |-> 0] }
SimOptions == RepeatOptions \cup StuckOptions
MaxRuns == 3

\* simulate(opts) is called with opts from options, after fewer than limit
\* calls: the locals of the call
SimCall(options, limit) ==
  /\ simPc = "idle"
  /\ Len(runs) < limit
  /\ \E opts \in options :
       /\ simOpts' = opts
       /\ simT' = MergeTune(SIM_DEFAULTS, opts.tune)
       /\ simGrid' = SimNewGrid(opts.profile)
       /\ simRock' = SimRock(opts)
  /\ trace' = <<>> /\ simTick' = 0 /\ simRemoved' = FALSE /\ removeReason' = "null"
  /\ summary' = <<>>
  /\ simPc' = "loop"
  /\ UNCHANGED <<gameVars, rocks, iceGrid, moved, steps, probe, runs>>

\* one call, of any kind
SimStart == SimCall(SimOptions, 1)

\* call after call, each of a kind that ends by itself
SimStartAgain == SimCall(RepeatOptions, MaxRuns)

\* the while loop left running beyond any number of passes
SimLoopGuardNoCap(rock, tick) == rock.inPlay /\ rock.velocity > 200

\* the condition of the while loop
SimLoopGuard(rock, tick) == rock.inPlay /\ rock.velocity > 200 /\ tick < TickCap

\* the locals after a pass of the loop that computed it: tick++
SimPassed(loc, it) ==
  [rock |-> it.rock, grid |-> it.grid, tick |-> loc.tick + 1,
   trace |-> TracePush(loc.trace, loc.tick, it.entry),
   removed |-> (loc.removed \/ it.removed),
   reason |-> SimRemoveReason(it.moved, loc.reason)]

\* one pass of the while loop
SimPass(loc, T, dt, sweep) ==
  SimPassed(loc, SimBody(loc.rock, evaporateMoisture(loc.grid, dt), T, dt, sweep))

\* up to k passes of the while loop, fewer when its condition fails
RECURSIVE SimPasses(_, _, _, _, _)
SimPasses(loc, T, dt, sweep, k) ==
  IF k = 0 \/ ~SimLoopGuard(loc.rock, loc.tick) THEN loc
  ELSE SimPasses(SimPass(loc, T, dt, sweep), T, dt, sweep, k - 1)

\* the passes of the loop one step of the model takes: the loop is
\* sequential code, and nothing else runs between two of its passes
PassesPerStep == 40

\* the next PassesPerStep passes of the while loop
SimStep ==
  /\ simPc = "loop"
  /\ SimLoopGuard(simRock, simTick)
  /\ \E loc \in {SimPasses([rock |-> simRock, grid |-> simGrid, tick |-> simTick,
                            trace |-> trace, removed |-> simRemoved,
                            reason |-> removeReason],
                           simT, simOpts.dt, simOpts.sweep, PassesPerStep)} :
       /\ simRock' = loc.rock
       /\ simGrid' = loc.grid
       /\ simTick' = loc.tick
       /\ trace' = loc.trace
       /\ simRemoved' = loc.removed
       /\ removeReason' = loc.reason
  /\ UNCHANGED <<gameVars, rocks, iceGrid, moved, steps, probe, simPc, simOpts, simT, summary, runs>>

\* the loop is left: the summary is built and the call returns
SimReturn ==
  /\ simPc = "loop"
  /\ ~SimLoopGuard(simRock, simTick)
  /\ summary' = SimSummary(simOpts, simT, trace, simTick, simRemoved, removeReason)
  /\ runs' = Append(runs, [opts |-> simOpts, trace |-> trace, summary |-> summary'])
  /\ simPc' = "idle"
  /\ UNCHANGED <<gameVars, rocks, iceGrid, moved, steps, probe, simOpts, simT, simGrid, simRock,
                 simTick, trace, simRemoved, removeReason>>

NextSim == SimStart \/ SimStep \/ SimReturn

SpecSim == Init /\ [][NextSim]_vars

NextSimRepeat == SimStartAgain \/ SimStep \/ SimReturn

SpecSimRepeat == Init /\ [][NextSimRepeat]_vars

\* C9: the while loop of simulate makes at most 10,000 passes; at the cap it
\* is left though the rock is still moving, and the call returns a summary
\* whose ticks is the number of passes made, 10,000 for a call that reached
\* the cap.
C9_TickCap ==
  /\ simTick <= TickCap
  /\ TraceLength(trace) = simTick
  /\ (simPc = "loop" /\ simTick = TickCap) => ENABLED SimReturn
  /\ \A n \in DOMAIN runs :
       /\ runs[n].summary.ticks = TraceLength(runs[n].trace)
       /\ runs[n].summary.ticks <= TickCap

\* a call has returned at the cap, its rock still in play and moving
C9_Witness ==
  /\ simPc = "idle" /\ runs # <<>>
  /\ summary.ticks = TickCap
  /\ simRock.inPlay /\ simRock.velocity > 200
  /\ ~summary.removed

\* C10: two calls of simulate with the same inputs return the same trace and
\* the same summary, whatever calls were made between them.
C10_Deterministic ==
  \A m, n \in DOMAIN runs :
    runs[m].opts = runs[n].opts =>
      (runs[m].trace = runs[n].trace /\ runs[m].summary = runs[n].summary)

\* the second of two calls with the same inputs has returned, the first
\* having worn and wetted its grid
C10_Witness ==
  /\ Len(runs) >= 2 /\ simPc = "idle"
  /\ runs[1].opts = runs[2].opts
  /\ runs[1].opts.sweep /\ runs[1].opts.dt > 0
  /\ runs[2].summary.ticks > 1
  /\ simGrid # SimNewGrid(simOpts.profile)

\* ------------------------------------------------------------ the delivery alone
\* One rock delivered by deliverRock from the centre line on championship
\* ice, with either handle, and ticked by the game loop until it is at rest
\* or removed.
DeliveryShots ==
  {[aimAngle |-> 0, power |-> pw, curlDir |-> cd, sweep |-> FALSE, paperTurns |-> 100] :
     pw \in {150, 175, 200}, cd \in {1, -1}}

InitDelivery ==
  /\ phase = "running" /\ currentEnd = 1 /\ currentTeam = 0 /\ rockNum = 0
  /\ scores = <<<<>>, <<>>>> /\ endScoreDisplay = NoScoreDisplay
  /\ iceProfile = "championship" /\ tune = DEFAULTS
  /\ deliveryRockRef = 0 /\ sweepingRef = FALSE
  /\ \E shot \in DeliveryShots, dt \in TickDts :
       /\ aimAngle = shot.aimAngle /\ power = shot.power /\ curlDir = shot.curlDir
       /\ script = [shots |-> <<shot, shot>>, dt |-> dt]
       /\ rocks = deliverRock(initEnd, 0, 0, shot.aimAngle, shot.power, shot.curlDir,
                              shot.paperTurns)
  /\ thrown = <<<<0, 0>>>>
  /\ iceGrid = initIce(iceProfile, CHOOSE R \in DiscoveryDraws : TRUE)
  /\ moved = [at |-> rocks, pre |-> rocks]
  /\ steps = 0 /\ probe = <<>>
  /\ SimIdle

NextDelivery == TickStep

SpecDelivery == InitDelivery /\ [][NextDelivery]_vars

\* the delivery rock of the game has come to rest in play
DeliveryAtRest ==
  /\ phase # "running" /\ iceProfile = "championship" /\ deliveryRockRef >= 0
  /\ deliveryRockRef + 1 \in DOMAIN rocks
  /\ rocks[deliveryRockRef + 1].inPlay /\ ~rocks[deliveryRockRef + 1].hasContacted

\* in the game, the rock at rest lies to the +y side of its aim when its
\* handle is +1 and to the -y side when it is -1
GameCurlDirection ==
  DeliveryAtRest =>
    (rocks[deliveryRockRef + 1].y - aimAngle) * rocks[deliveryRockRef + 1].spin > 0

\* in the simulator, every returned delivery on championship ice with a
\* positive curl coefficient has a total curl of the sign of its spin
SimCurlDirection ==
  \A n \in DOMAIN runs :
    (runs[n].opts.profile = "championship" /\ runs[n].summary.tune.curlCoeff > 0) =>
      runs[n].summary.totalCurl * runs[n].opts.spin > 0

\* C11: on championship ice a delivery with spin +1 ends displaced toward +y
\* and a delivery with spin -1 toward -y, in the game's physics tick and in
\* the simulator alike.
C11_CurlDirection == GameCurlDirection /\ SimCurlDirection

\* ------------------------------------------------------------ paired shots
\* simulate called twice, as the snapshot runner compares its scenarios: a
\* delivery, then the delivery that differs from it only in the spin or only
\* in the sweep flag. The deliveries are the scenarios' (aim 0, 40 and 65 at
\* power 42 with either spin; sweep pairs at three powers; curlCoeff 0 from
\* aim 20 on two profiles), with the default dt of 0.016.
Shot(aim, pw, spin, profile, sweep, overrides) ==
  [aim |-> aim, power |-> pw, spin |-> spin, profile |-> profile, paperTurns |-> 100,
   sweep |-> sweep, tune |-> overrides, dt |-> 16]

ShotOptions ==
  {Shot(aim, 42, spin, "championship", FALSE, NoOverrides) :
     aim \in {0, 40000, 65000}, spin \in {1, -1}}
  \cup {Shot(0, pw, 1, "championship", sweep, NoOverrides) :
          pw \in {10, 30, 90}, sweep \in BOOLEAN}
  \cup {Shot(20000, 42, spin, profile, FALSE, [curlCoeff |-> 0]) :
          spin \in {1, -1}, profile \in {"championship", "arena"}}

\* b is a with the other spin or the other sweep flag
Partner(a, b) == a # b /\ [a EXCEPT !.spin = b.spin, !.sweep = b.sweep] = b

\* the first call, or the call of a partner of the first
SimStartShot ==
  SimCall(IF runs = <<>> THEN ShotOptions
          ELSE {o \in ShotOptions : Partner(runs[1].opts, o)}, 2)

NextShots == SimStartShot \/ SimStep \/ SimReturn

SpecShots == Init /\ [][NextShots]_vars

\* two returned calls on championship ice that differ only in the spin
SpinPair(a, b) ==
  /\ a.opts.profile = "championship" /\ a.opts.spin = 1
  /\ b.opts = [a.opts EXCEPT !.spin = -1]

\* total curls of opposite sign and of equal magnitude within the tolerance
\* of the runner's pair check: less than 2 apart, or less than 15% apart
CurlsMirror(ca, cb) ==
  /\ ca * cb < 0 \/ (ca = 0 /\ cb = 0)
  /\ \/ Abs(Abs(ca) - Abs(cb)) < 200
     \/ Abs(Abs(ca) - Abs(cb)) * 100 < 15 * Abs(ca)

\* C12 as stated: for identical aim, power and tuning on championship ice
\* the deliveries with spin +1 and spin -1 end with total curls of equal
\* magnitude within tolerance and of opposite sign.
C12_Symmetry ==
  \A m, n \in DOMAIN runs :
    SpinPair(runs[m], runs[n]) =>
      CurlsMirror(runs[m].summary.totalCurl, runs[n].summary.totalCurl)

\* C12 amended: the total curls of the two deliveries mirror each other when
\* neither delivery is removed at a sideboard.
C12_SymmetryOnSheet ==
  \A m, n \in DOMAIN runs :
    (/\ SpinPair(runs[m], runs[n])
     /\ runs[m].summary.removeReason # "sideboard"
     /\ runs[n].summary.removeReason # "sideboard") =>
      CurlsMirror(runs[m].summary.totalCurl, runs[n].summary.totalCurl)

\* both deliveries of a spin pair have come to rest on the sheet, each having
\* curled more than 3 units
C12_Witness ==
  \E m, n \in DOMAIN runs :
    /\ SpinPair(runs[m], runs[n])
    /\ ~runs[m].summary.removed /\ ~runs[n].summary.removed
    /\ runs[m].summary.totalCurl > 300 /\ runs[n].summary.totalCurl < -300

\* two returned calls that differ only in the sweep flag
SweepPair(a, b) == ~a.opts.sweep /\ b.opts = [a.opts EXCEPT !.sweep = TRUE]

C15_ZeroCurl ==
  \A n \in DOMAIN runs :
    runs[n].summary.tune.curlCoeff = 0 => Abs(runs[n].summary.totalCurl) <= 100

\* a delivery with curlCoeff = 0 has returned after more than 200 ticks over
\* arena ice, having drifted, by less than 1
C15_Witness ==
  \E n \in DOMAIN runs :
    /\ runs[n].summary.tune.curlCoeff = 0 /\ runs[n].opts.profile = "arena"
    /\ runs[n].summary.ticks > 200
    /\ runs[n].summary.totalCurl # 0 /\ Abs(runs[n].summary.totalCurl) <= 100

\* ------------------------------------------------------------ the velocity factor
\* The velocity factor of the game's tick and of the simulator, each applied
\* to the same rising speeds: probe is the sequence of the samples taken,
\* from v = 0 upward in steps of 0.1, 0.3, 0.7 or 3.
MaxSamples == 5
SpeedSteps == {1000, 3000, 7000, 30000}

FactorSample(v) == [v |-> v, game |-> VFactor(v), sim |-> SimVFactor(v)]

InitFactor ==
  /\ GameInit
  /\ rocks = <<>> /\ iceGrid = NewIceGrid /\ moved = NoTick /\ steps = 0
  /\ probe = <<FactorSample(0)>>
  /\ SimIdle

\* the factor of the next, higher speed
SampleFactor ==
  /\ Len(probe) < MaxSamples
  /\ \E dv \in SpeedSteps : probe' = Append(probe, FactorSample(probe[Len(probe)].v + dv))
  /\ UNCHANGED <<gameVars, rocks, iceGrid, moved, steps, simVars>>

NextFactor == SampleFactor

SpecFactor == InitFactor /\ [][NextFactor]_vars

\* the samples f (one factor per speed) have the shape of a single peak: 0 at
\* v = 0 and positive above, never lower at a speed than at both a lower and
\* a higher one, and below 0.1 from v = 10 on
SinglePeak(f) ==
  /\ \A i \in DOMAIN probe : (probe[i].v = 0) <=> (f[i] = 0)
  /\ \A i, j, k \in DOMAIN probe : (i < j /\ j < k) => ~(f[j] < f[i] /\ f[j] < f[k])
  /\ \A i \in DOMAIN probe : probe[i].v >= 100000 => f[i] < 1000

\* the game's factor v / (v * v + 0.5) has that shape
GameVFactorShape == SinglePeak([i \in DOMAIN probe |-> probe[i].game])

\* C13: the velocity factor of spin curl and gradient drift is 0 at v = 0,
\* rises to a single peak and decays toward 0 at high speed, in the game's
\* tick and in the simulator.
C13_VFactorShape ==
  /\ GameVFactorShape
  /\ SinglePeak([i \in DOMAIN probe |-> probe[i].sim])

\* ------------------------------------------------------------ field sampling
\* sampleFriction and sampleSlope called on their own, on a grid initialised
\* from any profile of the game, fresh or worn by sweeping over the button:
\* at points inside the sheet, on the centres of cells, on its edges and
\* corners, just beyond them and far off the sheet (a removed rock is parked
\* at x = 800). probe is the call and what it returned, with the base cell of
\* the interpolation.
MaxFieldCalls == 1
SampleXs == {-5000000, -680001, -672396, -540000, -381234, 50000, 54000, 800000}
SampleYs == {-1000000, -82000, -76875, -4000, 12345, 79000, 82001, 4000000}

FieldSample(grid, wx, wy, T) ==
  [wx |-> wx, wy |-> wy,
   c0 |-> BilinearAxis(wx, GRID_X_MIN, GridW, GRID_COLS).i0,
   r0 |-> BilinearAxis(wy, GRID_Y_MIN, GridH, GRID_ROWS).i0,
   friction |-> sampleFriction(grid, wx, wy, T.baseFriction, T.pebbleFrictionBonus),
   slope |-> sampleSlope(grid, wx, wy)]

InitSample == InitIce

\* grid.sampleFriction(wx, wy, bf, pb) and grid.sampleSlope(wx, wy)
SampleField ==
  /\ steps < MaxFieldCalls
  /\ steps' = steps + 1
  /\ \E wx \in SampleXs, wy \in SampleYs : probe' = FieldSample(iceGrid, wx, wy, tune)
  /\ UNCHANGED <<gameVars, rocks, iceGrid, moved, simVars>>

NextSample == SampleField

SpecSample == InitSample /\ [][NextSample]_vars

\* the four cells the sample in probe interpolates
SampledCells == {iceGrid[c][r] : c \in {probe.c0, probe.c0 + 1}, r \in {probe.r0, probe.r0 + 1}}

\* v lies between the least and the greatest value of S
Between(v, S) == (\E a \in S : a <= v) /\ (\E b \in S : v <= b)

\* C19: for every world coordinate, on or off the sheet, sampleFriction and
\* sampleSlope read only cells inside the grid and return a value between the
\* minimum and the maximum of the four cells they interpolate.
C19_SamplingInGrid ==
  probe # <<>> =>
    /\ probe.c0 \in Cols /\ probe.c0 + 1 \in Cols
    /\ probe.r0 \in Rows /\ probe.r0 + 1 \in Rows
    /\ Between(probe.friction,
               {cellFriction(cell, tune.baseFriction, tune.pebbleFrictionBonus) :
                  cell \in SampledCells})
    /\ Between(probe.slope.sx, {cell.slopeX : cell \in SampledCells})
    /\ Between(probe.slope.sy, {cell.slopeY : cell \in SampledCells})

\* a sample taken beyond a corner of the sheet, where the four cells nearest
\* the corner differ in slope: it is the corner cell's value
C19_Witness ==
  /\ probe # <<>>
  /\ probe.wx < GRID_X_MIN /\ probe.wy > GRID_Y_MAX
  /\ probe.c0 = 0 /\ probe.r0 = GRID_ROWS - 2
  /\ Cardinality({cell.slopeY : cell \in SampledCells}) > 1
  /\ probe.slope.sy = iceGrid[0][GRID_ROWS - 1].slopeY
  /\ probe.friction = cellFriction(iceGrid[0][GRID_ROWS - 1], tune.baseFriction,
                                   tune.pebbleFrictionBonus)

\* ------------------------------------------------------------ the summary
\* C20: the summary returned by simulate reports the position of the rock
\* when the loop ended, after the movement of the last tick: finalX and
\* finalY are the rock's x and y, totalCurl is its y less the aim and
\* distToButton its distance from the centre of the house.
C20_FinalPosition ==
  (simPc = "idle" /\ summary # <<>>) =>
    /\ summary.finalX = simRock.x
    /\ summary.finalY = simRock.y
    /\ summary.totalCurl = RoundDiv(simRock.y - simOpts.aim, 10)
    /\ summary.distToButton = RoundDiv(Sqrt(SimDistSq(simRock)), 10)

\* C29: a summary never reports both removed and inHouse: a rock removed at
\* the back line, a sideboard or the hog line is not counted as lying in the
\* house.
C29_RemovedNotInHouse ==
  (simPc = "idle" /\ summary # <<>>) => ~(summary.removed /\ summary.inHouse)

\* ------------------------------------------------------------ the simulator against the game
\* One rock on the sheet, the other fifteen parked: from every state the game
\* is in, physicsTick runs on the roster and one pass of the simulate loop
\* runs on the same rock over the same grid, with the same tuning, dt and
\* sweep flag. rocks and iceGrid are the game's after the tick; simRock,
\* simGrid and simRemoved are the simulator's after the pass.
MaxLockSteps == 6
LockShots ==
  {[aimAngle |-> a, power |-> pw, curlDir |-> cd, sweep |-> sw, paperTurns |-> 100] :
     a \in {0, 30000}, pw \in {0, 500, 1000}, cd \in {1, -1}, sw \in BOOLEAN}

\* the rock of the game as the simulator holds a rock
SimOf(rock) ==
  [x |-> rock.x, y |-> rock.y, angle |-> rock.angle, velocity |-> rock.velocity,
   spin |-> rock.spin, paperTurns |-> rock.paperTurns, inPlay |-> rock.inPlay,
   hasContacted |-> rock.hasContacted]

InitLock ==
  /\ phase = "running" /\ currentEnd = 1 /\ currentTeam = 0 /\ rockNum = 0
  /\ scores = <<<<>>, <<>>>> /\ endScoreDisplay = NoScoreDisplay
  /\ iceProfile \in SimProfiles
  /\ tune \in {DEFAULTS, SIM_DEFAULTS}
  /\ deliveryRockRef = 0
  /\ \E shot \in LockShots, dt \in TickDts :
       /\ aimAngle = shot.aimAngle /\ power = shot.power /\ curlDir = shot.curlDir
       /\ sweepingRef = shot.sweep
       /\ script = [shots |-> <<shot, shot>>, dt |-> dt]
       /\ rocks = deliverRock(initEnd, 0, 0, shot.aimAngle, shot.power, shot.curlDir,
                              shot.paperTurns)
  /\ thrown = <<<<0, 0>>>>
  /\ iceGrid = initIce(iceProfile, CHOOSE R \in DiscoveryDraws : TRUE)
  /\ moved = [at |-> rocks, pre |-> rocks]
  /\ steps = 0 /\ probe = <<>>
  /\ simPc = "loop" /\ simOpts = <<>> /\ simT = tune /\ simGrid = iceGrid
  /\ simRock = SimOf(rocks[1])
  /\ simTick = 0 /\ trace = <<>> /\ simRemoved = FALSE /\ removeReason = "null"
  /\ summary = <<>> /\ runs = <<>>

\* physicsTick(dt) of the game, and one pass of the while loop of simulate
\* from the state the game was in
LockStep ==
  /\ steps < MaxLockSteps
  /\ rocks[1].inPlay /\ rocks[1].velocity > 200
  /\ \E t \in {physicsTick(rocks, iceGrid, tune, script.dt,
                           IF sweepingRef THEN deliveryRockRef ELSE -1)},
        loc \in {SimPass([rock |-> SimOf(rocks[1]), grid |-> iceGrid, tick |-> steps,
                          trace |-> <<>>, removed |-> FALSE, reason |-> "null"],
                         tune, script.dt, sweepingRef)} :
       /\ rocks' = t.rocks /\ iceGrid' = t.grid /\ moved' = t.moved
       /\ simRock' = loc.rock /\ simGrid' = loc.grid /\ simTick' = loc.tick
       /\ simRemoved' = loc.removed /\ removeReason' = loc.reason
  /\ steps' = steps + 1
  /\ UNCHANGED <<gameVars, probe, simPc, simOpts, simT, trace, summary, runs>>

NextLock == LockStep

SpecLock == InitLock /\ [][NextLock]_vars

\* after a tick and a pass from the same state the simulator's rock has the
\* velocity and the x of the game's rock as its boundary rules saw it, the two
\* grids are equal, and the rock is removed by both or by neither
LockLongitudinal ==
  steps > 0 =>
    /\ simRock.velocity = moved.at[1].velocity
    /\ simRock.x = moved.at[1].x
    /\ simRemoved = ~rocks[1].inPlay

\* C21: for a single rock with no collisions, one iteration of the simulate
\* loop changes the rock's velocity and position and the ice grid exactly as
\* one physicsTick of the game does for the same tuning, dt and sweep flag,
\* and both remove the rock under the same conditions.
C21_SameTick ==
  steps > 0 =>
    /\ simRock.velocity = moved.at[1].velocity
    /\ simRock.x = moved.at[1].x
    /\ simRock.y = moved.at[1].y
    /\ simGrid = iceGrid
    /\ simRemoved = ~rocks[1].inPlay

\* ------------------------------------------------------------ wear alone
\* applyWear called on its own on a grid of any profile, fresh or worn down
\* to the floor over the button: at the button, near the far corner of the
\* sheet and beyond the near corner, off the sheet. probe is the call and the
\* grid it was made on.
MaxWearCalls == 1
WearCallPoints == {<<-540000, 0>>, <<-640000, -79000>>, <<800000, 90000>>}

InitWear == InitIce

\* grid.applyWear(x, y, dt, isSweeping, wearRate)
WearCall ==
  /\ steps < MaxWearCalls
  /\ \E pt \in WearCallPoints, dt \in {50}, isSweeping \in BOOLEAN, wearRate \in WearRates :
       /\ iceGrid' = applyWear(iceGrid, pt[1], pt[2], dt, isSweeping, wearRate)
       /\ probe' = [x |-> pt[1], y |-> pt[2], dt |-> dt, isSweeping |-> isSweeping,
                    wearRate |-> wearRate, before |-> iceGrid]
  /\ steps' = steps + 1
  /\ UNCHANGED <<gameVars, rocks, moved, simVars>>

NextWear == WearCall

SpecWear == InitWear /\ [][NextWear]_vars

\* the cell (cc, rr) lies in the 3x3 neighbourhood of the cell containing the
\* point of the call
InWearReach(cc, rr) ==
  /\ Abs(cc - toGrid(probe.x, probe.y)[1]) <= 1
  /\ Abs(rr - toGrid(probe.x, probe.y)[2]) <= 1

\* wearRate * weight * dt for the cell (cc, rr), in the unit of pebbleHeight
WearOf(cc, rr) ==
  probe.wearRate * probe.dt * (IF <<cc, rr>> = toGrid(probe.x, probe.y) THEN 10 ELSE 3)

\* what the call leaves alone: every cell out of reach, every cell's slope
\* and temperature, and every cell's moisture unless sweeping
WearFrame ==
  \A cc \in Cols, rr \in Rows :
    /\ iceGrid[cc][rr].slopeX = probe.before[cc][rr].slopeX
    /\ iceGrid[cc][rr].slopeY = probe.before[cc][rr].slopeY
    /\ iceGrid[cc][rr].temperature = probe.before[cc][rr].temperature
    /\ ~InWearReach(cc, rr) => iceGrid[cc][rr] = probe.before[cc][rr]
    /\ ~probe.isSweeping => iceGrid[cc][rr].moisture = probe.before[cc][rr].moisture

\* C23 as stated: applyWear changes only the cells of the 3x3 neighbourhood
\* (clipped at the grid edge) of the cell containing (x, y): the centre
\* cell's pebbleHeight drops by wearRate*dt and each neighbour's by
\* 0.3*wearRate*dt, floored at 0; every other cell, and every cell's slope
\* and temperature, are unchanged, and moisture changes only when sweeping.
C23_WearFrame ==
  probe # <<>> =>
    /\ WearFrame
    /\ \A cc \in Cols, rr \in Rows :
         InWearReach(cc, rr) =>
           iceGrid[cc][rr].pebbleHeight
             = Max(0, probe.before[cc][rr].pebbleHeight - WearOf(cc, rr))

\* C23 amended: as stated when not sweeping; when sweeping the pebbleHeight
\* of the centre cell drops by 3.5*wearRate*dt and each neighbour's by
\* 3.5*0.3*wearRate*dt, floored at 0.
C23_WearFrameSweeping ==
  probe # <<>> =>
    /\ WearFrame
    /\ \A cc \in Cols, rr \in Rows :
         InWearReach(cc, rr) =>
           iceGrid[cc][rr].pebbleHeight
             = Max(0, probe.before[cc][rr].pebbleHeight
                        - (IF probe.isSweeping THEN Div(35 * WearOf(cc, rr), 10)
                           ELSE WearOf(cc, rr)))

\* a sweeping call beyond the near corner of the sheet: the corner cell and
\* its three neighbours in the grid have lost pebble, the cells next to them
\* are as they were
C23_Witness ==
  /\ probe # <<>> /\ probe.isSweeping
  /\ toGrid(probe.x, probe.y) = <<GRID_COLS - 1, GRID_ROWS - 1>>
  /\ iceGrid[GRID_COLS - 1][GRID_ROWS - 1].pebbleHeight
       < probe.before[GRID_COLS - 1][GRID_ROWS - 1].pebbleHeight
  /\ iceGrid[GRID_COLS - 2][GRID_ROWS - 2].pebbleHeight
       < probe.before[GRID_COLS - 2][GRID_ROWS - 2].pebbleHeight
  /\ iceGrid[GRID_COLS - 3][GRID_ROWS - 1] = probe.before[GRID_COLS - 3][GRID_ROWS - 1]
  /\ iceGrid[GRID_COLS - 1][GRID_ROWS - 3] = probe.before[GRID_COLS - 1][GRID_ROWS - 3]

\* ------------------------------------------------------------ the profile picker
\* A delivery running on championship ice, and the profile picker, which is
\* shown in every phase of the game: its buttons call setIceProfile(k) and
\* close the picker.
MaxSelections == 1

\* the onClick of a button of the profile picker, for another profile than
\* the current one
SelectProfile ==
  /\ steps < MaxSelections
  /\ \E k \in GameProfiles : k # iceProfile /\ iceProfile' = k
  /\ steps' = steps + 1
  /\ UNCHANGED <<phase, currentEnd, currentTeam, rockNum, scores, endScoreDisplay, aimAngle,
                 power, curlDir, tune, deliveryRockRef, sweepingRef, script, thrown,
                 rocks, iceGrid, moved, probe, simVars>>

NextProfile == SelectProfile \/ TickStep

SpecProfile == InitDelivery /\ [][NextProfile]_vars

\* C24: selecting a new ice profile replaces the ice field wholesale: after
\* the selection the field in use is a fresh grid initialised from the
\* selected profile, carrying none of the wear or moisture of the field
\* before.
C24_FieldReplaced ==
  [][iceProfile' # iceProfile => \E R \in DiscoveryDraws : iceGrid' = initIce(iceProfile', R)]_vars

\* ------------------------------------------------------------ the tuning panel
\* A delivery running on championship ice, and the tuning panel, which is
\* shown in every phase of the game. probe holds the tuning record at the
\* release of the rock and the set of the records the ticks of the delivery
\* have used, with their number; the first MaxTuneTicks ticks of the delivery
\* are followed.
MaxTuneChanges == 1
MaxTuneTicks == 12
SliderMoves == {<<"curlCoeff", 0>>, <<"frictionDecel", 300>>}

\* the record a tick reads as T: physicsTick is a callback rebuilt whenever
\* tune changes, and the game loop effect is restarted with it, so the tick
\* reads the current record, not the one captured when the rock was released
TuneInUseAtRelease(current, atRelease) == atRelease

TuneInUse(current, atRelease) == current

InitTune ==
  /\ phase = "running" /\ currentEnd = 1 /\ currentTeam = 0 /\ rockNum = 0
  /\ scores = <<<<>>, <<>>>> /\ endScoreDisplay = NoScoreDisplay
  /\ iceProfile = "championship" /\ tune = DEFAULTS
  /\ deliveryRockRef = 0 /\ sweepingRef = FALSE
  /\ \E shot \in DeliveryShots, dt \in TickDts :
       /\ aimAngle = shot.aimAngle /\ power = shot.power /\ curlDir = shot.curlDir
       /\ script = [shots |-> <<shot, shot>>, dt |-> dt]
       /\ rocks = deliverRock(initEnd, 0, 0, shot.aimAngle, shot.power, shot.curlDir,
                              shot.paperTurns)
  /\ thrown = <<<<0, 0>>>>
  /\ iceGrid = initIce(iceProfile, CHOOSE R \in DiscoveryDraws : TRUE)
  /\ moved = [at |-> rocks, pre |-> rocks]
  /\ steps = 0 /\ probe = [released |-> tune, used |-> {}, ticks |-> 0]
  /\ SimIdle

\* a slider of the tuning panel: setT(key, val)
MoveSlider ==
  /\ steps < MaxTuneChanges
  /\ \E kv \in SliderMoves : tune[kv[1]] # kv[2] /\ tune' = [tune EXCEPT ![kv[1]] = kv[2]]
  /\ steps' = steps + 1
  /\ UNCHANGED <<phase, currentEnd, currentTeam, rockNum, scores, endScoreDisplay, aimAngle,
                 power, curlDir, iceProfile, deliveryRockRef, sweepingRef, script, thrown,
                 rocks, iceGrid, moved, probe, simVars>>

\* one frame of the game loop: physicsTick(dt) with the tuning record in use
TuneTick ==
  /\ phase = "running"
  /\ probe.ticks < MaxTuneTicks
  /\ \E T \in {TuneInUse(tune, probe.released)} :
       \E t \in {physicsTick(rocks, iceGrid, T, script.dt,
                             IF sweepingRef THEN deliveryRockRef ELSE -1)} :
         /\ rocks' = t.rocks
         /\ iceGrid' = t.grid
         /\ moved' = t.moved
         /\ phase' = IF t.anyMoving THEN "running" ELSE "aiming"
         /\ probe' = [probe EXCEPT !.used = @ \cup {T}, !.ticks = @ + 1]
  /\ UNCHANGED <<currentEnd, currentTeam, rockNum, scores, endScoreDisplay, aimAngle, power,
                 curlDir, iceProfile, tune, deliveryRockRef, sweepingRef, script, thrown, steps,
                 simVars>>

NextTune == MoveSlider \/ TuneTick

SpecTune == InitTune /\ [][NextTune]_vars

\* C25 as stated: every tick between the release of a rock and the tick in
\* which all rocks have stopped uses the same tuning record.
C25_OneTuningPerDelivery == Cardinality(probe.used) <= 1

\* C25 amended: the tuning record is immutable for the duration of a tick,
\* not of a delivery: every tick uses, for all its rocks, the record that is
\* current when it runs, so a change made on the tuning panel during a
\* delivery takes effect from the next tick of that delivery.
C25_CurrentTuningPerTick ==
  [][(rocks' # rocks \/ iceGrid' # iceGrid \/ probe' # probe) =>
       /\ probe'.used = probe.used \cup {tune}
       /\ tune' = tune
       /\ rocks' = physicsTick(rocks, iceGrid, tune, script.dt,
                               IF sweepingRef THEN deliveryRockRef ELSE -1).rocks]_vars

\* the rock is still running after ticks under two different tuning records
C25_Witness ==
  /\ phase = "running"
  /\ Cardinality(probe.used) = 2
  /\ tune # probe.released
  /\ rocks[1].inPlay /\ rocks[1].velocity > 200
====
